---------------------------- MODULE Spec2Model ----------------------------
(***************************************************************************)
(* A model of the research assistant's API-response resilience layer and   *)
(* of the handlers that use it: the retrying call wrapper                  *)
(* (callApiWithRetry), the response normalizer (processApiResponse), the   *)
(* compare operation, and the compare fan-out of the two App components.   *)
(*                                                                         *)
(* Text is modelled as a sequence of one-character strings, so that the    *)
(* substring tests of the retry predicate are computed, not assumed.       *)
(***************************************************************************)
EXTENDS Integers, Sequences, FiniteSets, TLC

(***************************************************************************)
(* Bounds of the model.                                                    *)
(***************************************************************************)
\* largest maxRetries argument tried (the default, 3, lies inside)
MaxRetriesBound == 4

(***************************************************************************)
(* Program constants.                                                      *)
(***************************************************************************)
\* callApiWithRetry's default maxRetries
DefaultMaxRetries == 3
\* callApiWithRetry's default initialDelay, in milliseconds
DefaultInitialDelay == 1000

(***************************************************************************)
(* Strings.                                                                *)
(***************************************************************************)
UpperCase == <<"A", "B", "C", "D", "E", "F", "G", "H", "I", "J", "K", "L", "M",
               "N", "O", "P", "Q", "R", "S", "T", "U", "V", "W", "X", "Y", "Z">>
LowerCase == <<"a", "b", "c", "d", "e", "f", "g", "h", "i", "j", "k", "l", "m",
               "n", "o", "p", "q", "r", "s", "t", "u", "v", "w", "x", "y", "z">>

\* String.prototype.toLowerCase, one character
LowerChar(ch) ==
    IF \E i \in 1..Len(UpperCase) : UpperCase[i] = ch
    THEN LowerCase[CHOOSE i \in 1..Len(UpperCase) : UpperCase[i] = ch]
    ELSE ch

\* String.prototype.toLowerCase
ToLowerCase(s) == [i \in 1..Len(s) |-> LowerChar(s[i])]

\* String.prototype.includes: pat occurs in s as a contiguous substring
Includes(s, pat) ==
    \E i \in 0..(Len(s) - Len(pat)) :
        \A j \in 1..Len(pat) : s[i + j] = pat[j]

(***************************************************************************)
(* The messages of the errors the wrapped operation is made to throw.      *)
(***************************************************************************)
Msg503 ==
    <<"5", "0", "3", " ", "S", "e", "r", "v", "i", "c", "e", " ", "U", "n", "a", "v", "a", "i",
      "l", "a", "b", "l", "e">>
MsgStatusUnavailable ==
    <<"s", "t", "a", "t", "u", "s", ":", " ", "U", "N", "A", "V", "A", "I", "L", "A", "B", "L",
      "E">>
MsgOverloaded ==
    <<"T", "h", "e", " ", "m", "o", "d", "e", "l", " ", "i", "s", " ", "O", "v", "e", "r", "l",
      "o", "a", "d", "e", "d">>
MsgLowerUnavailable ==
    <<"s", "e", "r", "v", "i", "c", "e", " ", "u", "n", "a", "v", "a", "i", "l", "a", "b", "l",
      "e">>
MsgBadRequest ==
    <<"4", "0", "0", " ", "B", "a", "d", " ", "R", "e", "q", "u", "e", "s", "t">>
MsgEmpty == << >>

ErrorMessages ==
    {Msg503, MsgStatusUnavailable, MsgOverloaded, MsgLowerUnavailable, MsgBadRequest, MsgEmpty}

\* the message of the error thrown once every attempt has failed
TerminalMessage ==
    <<"T", "h", "e", " ", "A", "I", " ", "m", "o", "d", "e", "l", " ", "i", "s", " ", "t", "e",
      "m", "p", "o", "r", "a", "r", "i", "l", "y", " ", "u", "n", "a", "v", "a", "i", "l", "a",
      "b", "l", "e", " ", "d", "u", "e", " ", "t", "o", " ", "h", "i", "g", "h", " ", "d", "e",
      "m", "a", "n", "d", ".", " ", "P", "l", "e", "a", "s", "e", " ", "t", "r", "y", " ", "a",
      "g", "a", "i", "n", " ", "l", "a", "t", "e", "r", ".">>

\* An Error object: who constructed it, and its message.
ProviderError(m) == [origin |-> "apiCall", message |-> m]
TerminalError == [origin |-> "callApiWithRetry", message |-> TerminalMessage]

(***************************************************************************)
(* callApiWithRetry                                                        *)
(***************************************************************************)
\* the invocations of callApiWithRetry the model follows
Calls == {"c1", "c2"}

\* the results the wrapped operation resolves with in SpecRetry
Results == {"resultA", "resultB"}

NoError == [origin |-> "none", message |-> << >>]
NoOutcome == [kind |-> "none"]
Returned(v) == [kind |-> "returned", value |-> v]
Threw(e) == [kind |-> "threw", error |-> e]

VARIABLES
    callPc,        \* where each invocation stands: idle | loop | calling | sleeping | done
    maxRetries,    \* the maxRetries argument
    initialDelay,  \* the initialDelay argument
    attempt,       \* the loop counter
    lastError,     \* the lastError local
    callOutcome,   \* what the invocation returned or threw
    invoked,       \* history: how many times the wrapped operation was invoked
    opLog,         \* history: the outcome of each invocation of the wrapped operation
    delayLog,      \* history: each backoff delay taken, with the attempt it followed
    normPc,        \* the normalizer: idle | ready | done
    normBy,        \* history: the normalizer that ran (processApiResponse | parseGeminiJson)
    response,      \* the provider response handed to processApiResponse
    normOutcome,   \* what processApiResponse returned or threw
    consoleErrors, \* what the normalizer wrote with console.error
    jsonString,    \* the string the normalizer handed to JSON.parse
    cmpPc,         \* the compare operation: idle | start | awaiting | normalizing | done
    cmpEntry,      \* the entry point taken: service (comparePapers) | handler
    cmpEvent,      \* the handler's event: httpMethod and body
    cmpPapers,     \* the papers the operation compares
    cmpOutcome,    \* what the compare operation returned or threw
    providerRequests, \* history: the generateContent requests issued
    uiApp,         \* the App component that is mounted
    uiView,        \* view
    uiQuery,       \* searchedTerm (src/App.tsx), searchQuery (functions App)
    uiPapers,      \* papers (src/App.tsx), searchResults (functions App): paper ids
    uiSelected,    \* selectedPapers: a set of ids (src/App.tsx), a list (functions App)
    uiSuggestions, \* suggestions (src/App.tsx), suggestedTopics (functions App)
    uiSearching,   \* isSearching (src/App.tsx)
    uiLoading,     \* isProcessing (src/App.tsx), isLoading (functions App)
    uiError,       \* error
    uiResults,     \* the result state fields, by name
    uiDashboard,   \* papersForDashboard (src/App.tsx)
    uiActiveTab,   \* activeTab (functions App)
    uiSearches,    \* the searches started, each with the stage it has reached
    uiFanout,      \* the latest compare fan-out: its join and its requests
    uiCompares,    \* history: the compare fan-outs started
    uiAlerted,     \* history: an alert was shown
    svcPc,         \* a service operation: idle | unloaded | failed | ready | ... | done
    svcOp,         \* the operation called
    svcArg,        \* its argument
    svcReply,      \* what the provider, or the endpoint, answered
    svcOutcome,    \* what the operation returned or threw
    svcRequests,   \* history: the provider and endpoint requests issued
    svcConsole,    \* history: the console.error calls made
    svcNow,        \* the clock: what Date.now() returns next
    svcKey,        \* the provider API credential of the environment: set | unset
    aiKey          \* the credential the provider client was made with

retryVars ==
    <<callPc, maxRetries, initialDelay, attempt, lastError, callOutcome, invoked, opLog,
      delayLog>>

normVars == <<normPc, normBy, response, normOutcome, consoleErrors, jsonString>>

compareVars == <<cmpPc, cmpEntry, cmpEvent, cmpPapers, cmpOutcome, providerRequests>>

uiVars ==
    <<uiApp, uiView, uiQuery, uiPapers, uiSelected, uiSuggestions, uiSearching,
      uiLoading, uiError, uiResults, uiDashboard, uiActiveTab, uiSearches, uiFanout,
      uiCompares, uiAlerted>>

svcVars ==
    <<svcPc, svcOp, svcArg, svcReply, svcOutcome, svcRequests, svcConsole, svcNow, svcKey, aiKey>>

vars == <<retryVars, normVars, compareVars, uiVars, svcVars>>

\* the variables each part of the model leaves alone
outsideRetry == <<normVars, compareVars, uiVars, svcVars>>
outsideNorm == <<retryVars, compareVars, uiVars, svcVars>>
outsideCompare == <<uiVars, svcVars>>
outsideUi == <<retryVars, normVars, compareVars, svcVars>>
outsideService == <<retryVars, normVars, compareVars, uiVars>>

\* the retry predicate of the catch block
IsTransientUpperCased(message) ==
    \/ Includes(message, <<"5", "0", "3">>)
    \/ Includes(ToLowerCase(message), <<"u", "n", "a", "v", "a", "i", "l", "a", "b", "l", "e">>)
    \/ Includes(ToLowerCase(message), <<"o", "v", "e", "r", "l", "o", "a", "d", "e", "d">>)

IsTransient(message) ==
    \/ Includes(message, <<"5", "0", "3">>)
    \/ Includes(message, <<"U", "N", "A", "V", "A", "I", "L", "A", "B", "L", "E">>)
    \/ Includes(ToLowerCase(message), <<"o", "v", "e", "r", "l", "o", "a", "d", "e", "d">>)

\* const delay = initialDelay * Math.pow(2, attempt)
BackoffDelayLinear(d, k) == d * (k + 1)

BackoffDelay(d, k) == d * (2 ^ k)

\* the for loop's condition
LoopConditionInclusive(k, n) == k <= n

LoopCondition(k, n) == k < n

\* the wrapped operation invoked while the backoff timer is still running
InvokeWhileSleeping(c) ==
    /\ callPc[c] \in {"loop", "sleeping"}
    /\ LoopCondition(attempt[c], maxRetries[c])
    /\ callPc' = [callPc EXCEPT ![c] = "calling"]
    /\ invoked' = [invoked EXCEPT ![c] = @ + 1]
    /\ UNCHANGED <<maxRetries, initialDelay, attempt, lastError, callOutcome, opLog, delayLog>>

\* the loop condition holds: the wrapped operation is invoked and awaited
Invoke(c) ==
    /\ callPc[c] = "loop"
    /\ LoopCondition(attempt[c], maxRetries[c])
    /\ callPc' = [callPc EXCEPT ![c] = "calling"]
    /\ invoked' = [invoked EXCEPT ![c] = @ + 1]
    /\ UNCHANGED <<maxRetries, initialDelay, attempt, lastError, callOutcome, opLog, delayLog>>

\* the throw after the loop throwing lastError
ExhaustWithLastError(c) ==
    /\ callPc[c] = "loop"
    /\ ~LoopCondition(attempt[c], maxRetries[c])
    /\ callPc' = [callPc EXCEPT ![c] = "done"]
    /\ callOutcome' = [callOutcome EXCEPT ![c] = Threw(lastError[c])]
    /\ UNCHANGED <<maxRetries, initialDelay, attempt, lastError, invoked, opLog, delayLog>>

\* the loop condition fails: the throw after the loop
Exhaust(c) ==
    /\ callPc[c] = "loop"
    /\ ~LoopCondition(attempt[c], maxRetries[c])
    /\ callPc' = [callPc EXCEPT ![c] = "done"]
    /\ callOutcome' = [callOutcome EXCEPT ![c] = Threw(TerminalError)]
    /\ UNCHANGED <<maxRetries, initialDelay, attempt, lastError, invoked, opLog, delayLog>>

\* the awaited operation resolves: return its result
ResolveWithoutReturn(c, v) ==
    /\ callPc[c] = "calling"
    /\ callPc' = [callPc EXCEPT ![c] = "loop"]
    /\ attempt' = [attempt EXCEPT ![c] = @ + 1]
    /\ opLog' = [opLog EXCEPT ![c] = Append(@, Returned(v))]
    /\ UNCHANGED <<maxRetries, initialDelay, lastError, callOutcome, invoked, delayLog>>

Resolve(c, v) ==
    /\ callPc[c] = "calling"
    /\ callPc' = [callPc EXCEPT ![c] = "done"]
    /\ callOutcome' = [callOutcome EXCEPT ![c] = Returned(v)]
    /\ opLog' = [opLog EXCEPT ![c] = Append(@, Returned(v))]
    /\ UNCHANGED <<maxRetries, initialDelay, attempt, lastError, invoked, delayLog>>

\* the catch block taking no delay when no attempt is left
RejectSkippingLastDelay(c, e) ==
    /\ callPc[c] = "calling"
    /\ lastError' = [lastError EXCEPT ![c] = e]
    /\ opLog' = [opLog EXCEPT ![c] = Append(@, Threw(e))]
    /\ IF IsTransient(e.message) /\ attempt[c] + 1 < maxRetries[c]
       THEN /\ callPc' = [callPc EXCEPT ![c] = "sleeping"]
            /\ delayLog' = [delayLog EXCEPT ![c] =
                   Append(@, [attempt |-> attempt[c],
                              delay |-> BackoffDelay(initialDelay[c], attempt[c])])]
            /\ UNCHANGED callOutcome
       ELSE /\ callPc' = [callPc EXCEPT ![c] = "done"]
            /\ callOutcome' = [callOutcome EXCEPT ![c] =
                   IF IsTransient(e.message) THEN Threw(TerminalError) ELSE Threw(e)]
            /\ UNCHANGED delayLog
    /\ UNCHANGED <<maxRetries, initialDelay, attempt, invoked>>

\* the awaited operation rejects: the catch block
Reject(c, e) ==
    /\ callPc[c] = "calling"
    /\ lastError' = [lastError EXCEPT ![c] = e]
    /\ opLog' = [opLog EXCEPT ![c] = Append(@, Threw(e))]
    /\ IF IsTransient(e.message)
       THEN /\ callPc' = [callPc EXCEPT ![c] = "sleeping"]
            /\ delayLog' = [delayLog EXCEPT ![c] =
                   Append(@, [attempt |-> attempt[c],
                              delay |-> BackoffDelay(initialDelay[c], attempt[c])])]
            /\ UNCHANGED callOutcome
       ELSE /\ callPc' = [callPc EXCEPT ![c] = "done"]
            /\ callOutcome' = [callOutcome EXCEPT ![c] = Threw(e)]
            /\ UNCHANGED delayLog
    /\ UNCHANGED <<maxRetries, initialDelay, attempt, invoked>>

\* the loop counter kept in one place for every invocation
WakeSharedCounter(c) ==
    /\ callPc[c] = "sleeping"
    /\ callPc' = [callPc EXCEPT ![c] = "loop"]
    /\ attempt' = [x \in Calls |-> attempt[x] + 1]
    /\ UNCHANGED <<maxRetries, initialDelay, lastError, callOutcome, invoked, opLog, delayLog>>

\* the backoff timer fires: attempt++ and back to the loop condition
Wake(c) ==
    /\ callPc[c] = "sleeping"
    /\ callPc' = [callPc EXCEPT ![c] = "loop"]
    /\ attempt' = [attempt EXCEPT ![c] = @ + 1]
    /\ UNCHANGED <<maxRetries, initialDelay, lastError, callOutcome, invoked, opLog, delayLog>>

\* no response has been handed to processApiResponse
NoResponse == [text |-> << >>, blockReason |-> << >>, finishReason |-> << >>]

NormIdle ==
    /\ normPc = "idle"
    /\ normBy = "none"
    /\ response = NoResponse
    /\ normOutcome = NoOutcome
    /\ consoleErrors = << >>
    /\ jsonString = << >>

\* no event has reached the handler
NoEvent == [httpMethod |-> "none", body |-> << >>]

CompareIdle ==
    /\ cmpPc = "idle"
    /\ cmpEntry = "none"
    /\ cmpEvent = NoEvent
    /\ cmpPapers = [t |-> "undefined"]
    /\ cmpOutcome = NoOutcome
    /\ providerRequests = 0

\* no App component is mounted
UiIdle ==
    /\ uiApp = "none"
    /\ uiView = "none"
    /\ uiQuery = << >>
    /\ uiPapers = << >>
    /\ uiSelected = << >>
    /\ uiSuggestions = << >>
    /\ uiSearching = FALSE
    /\ uiLoading = FALSE
    /\ uiError = [isNull |-> TRUE]
    /\ uiResults = << >>
    /\ uiDashboard = << >>
    /\ uiActiveTab = "none"
    /\ uiSearches = << >>
    /\ uiFanout = [status |-> "none", reqs |-> << >>]
    /\ uiCompares = 0
    /\ uiAlerted = FALSE

\* no service operation has been called
ServiceIdle ==
    /\ svcPc = "idle"
    /\ svcOp = "none"
    /\ svcArg = << >>
    /\ svcReply = << >>
    /\ svcOutcome = NoOutcome
    /\ svcRequests = 0
    /\ svcConsole = 0
    /\ svcNow = 0
    /\ svcKey = "unset"
    /\ aiKey = "none"

RetryIdle ==
    /\ callPc = [c \in Calls |-> "idle"]
    /\ maxRetries = [c \in Calls |-> DefaultMaxRetries]
    /\ initialDelay = [c \in Calls |-> DefaultInitialDelay]
    /\ attempt = [c \in Calls |-> 0]
    /\ lastError = [c \in Calls |-> NoError]
    /\ callOutcome = [c \in Calls |-> NoOutcome]
    /\ invoked = [c \in Calls |-> 0]
    /\ opLog = [c \in Calls |-> << >>]
    /\ delayLog = [c \in Calls |-> << >>]

(***************************************************************************)
(* SpecRetry: one invocation of callApiWithRetry, its arguments drawn from *)
(* small sets, around an operation that may resolve or reject each time.   *)
(***************************************************************************)
MaxRetriesValues == (0 - 1)..MaxRetriesBound
InitialDelayValues == {250, DefaultInitialDelay}

InitRetry ==
    /\ callPc = [c \in Calls |-> IF c = "c1" THEN "loop" ELSE "idle"]
    /\ \E n \in MaxRetriesValues :
           maxRetries = [c \in Calls |-> IF c = "c1" THEN n ELSE DefaultMaxRetries]
    /\ \E d \in InitialDelayValues :
           initialDelay = [c \in Calls |-> IF c = "c1" THEN d ELSE DefaultInitialDelay]
    /\ attempt = [c \in Calls |-> 0]
    /\ lastError = [c \in Calls |-> NoError]
    /\ callOutcome = [c \in Calls |-> NoOutcome]
    /\ invoked = [c \in Calls |-> 0]
    /\ opLog = [c \in Calls |-> << >>]
    /\ delayLog = [c \in Calls |-> << >>]
    /\ NormIdle
    /\ CompareIdle
    /\ UiIdle
    /\ ServiceIdle

NextRetry ==
    \E c \in Calls :
        \/ Invoke(c) /\ UNCHANGED outsideRetry
        \/ Exhaust(c) /\ UNCHANGED outsideRetry
        \/ \E v \in Results : Resolve(c, v) /\ UNCHANGED outsideRetry
        \/ \E m \in ErrorMessages : Reject(c, ProviderError(m)) /\ UNCHANGED outsideRetry
        \/ Wake(c) /\ UNCHANGED outsideRetry

SpecRetry == InitRetry /\ [][NextRetry]_vars


(***************************************************************************)
(* Claims about callApiWithRetry, checked under SpecRetry.                 *)
(***************************************************************************)
\* the transient-overload markers as the claims list them
MatchesOverloadMarker(m) ==
    \/ Includes(m, <<"5", "0", "3">>)
    \/ Includes(m, <<"U", "N", "A", "V", "A", "I", "L", "A", "B", "L", "E">>)
    \/ Includes(ToLowerCase(m), <<"o", "v", "e", "r", "l", "o", "a", "d", "e", "d">>)

TransientFailure(o) == o.kind = "threw" /\ MatchesOverloadMarker(o.error.message)
OtherFailure(o) == o.kind = "threw" /\ ~MatchesOverloadMarker(o.error.message)
AllTransientFailures(log) == \A i \in 1..Len(log) : TransientFailure(log[i])
DelaysOf(c) == [i \in 1..Len(delayLog[c]) |-> delayLog[c][i].delay]

\* C1: with maxRetries >= 1, while every invocation of the wrapped operation has
\* failed with a message matching a transient-overload marker, the operation is
\* invoked at most maxRetries times, and the invocation ends only after exactly
\* maxRetries invocations, by throwing the terminal 'temporarily unavailable'
\* error, which is none of the underlying errors.
C1_AllTransientExhausts ==
    \A c \in Calls :
        (maxRetries[c] >= 1 /\ AllTransientFailures(opLog[c])) =>
            /\ invoked[c] <= maxRetries[c]
            /\ callPc[c] = "done" =>
                   /\ invoked[c] = maxRetries[c]
                   /\ Len(opLog[c]) = maxRetries[c]
                   /\ callOutcome[c] = Threw(TerminalError)
                   /\ \A i \in 1..Len(opLog[c]) : callOutcome[c].error # opLog[c][i].error

C1_Witness ==
    /\ callPc["c1"] = "done"
    /\ maxRetries["c1"] = DefaultMaxRetries
    /\ Len(opLog["c1"]) = DefaultMaxRetries
    /\ AllTransientFailures(opLog["c1"])
    /\ opLog["c1"][1].error.message = Msg503
    /\ opLog["c1"][2].error.message = MsgStatusUnavailable
    /\ opLog["c1"][3].error.message = MsgOverloaded
    /\ callOutcome["c1"] = Threw(TerminalError)

\* C2: once an invocation of the wrapped operation has failed with a message that
\* matches no transient-overload marker, at whatever attempt, the wrapper has
\* thrown that same error, has taken no delay for it (one delay per earlier
\* failure only) and has not invoked the operation again; when it was the first
\* attempt the operation was invoked exactly once.
C2_NonTransientPropagates ==
    \A c \in Calls :
        (opLog[c] # << >> /\ OtherFailure(opLog[c][Len(opLog[c])])) =>
            /\ callPc[c] = "done"
            /\ callOutcome[c] = Threw(opLog[c][Len(opLog[c])].error)
            /\ invoked[c] = Len(opLog[c])
            /\ Len(delayLog[c]) = Len(opLog[c]) - 1
            /\ attempt[c] = Len(opLog[c]) - 1
            /\ Len(opLog[c]) = 1 => invoked[c] = 1 /\ delayLog[c] = << >>

C2_Witness ==
    /\ callPc["c1"] = "done"
    /\ Len(opLog["c1"]) = 3
    /\ TransientFailure(opLog["c1"][1])
    /\ TransientFailure(opLog["c1"][2])
    /\ opLog["c1"][3] = Threw(ProviderError(MsgLowerUnavailable))
    /\ callOutcome["c1"] = Threw(ProviderError(MsgLowerUnavailable))
    /\ invoked["c1"] = 3
    /\ Len(delayLog["c1"]) = 2

\* C3: once the wrapped operation has succeeded on invocation j+1 after j
\* transient failures, the wrapper has returned that result, has invoked the
\* operation exactly j+1 times and has taken exactly j delays, the i-th of
\* initialDelay * 2^(i-1): 1000 then 2000 for j = 2 with the defaults.
C3_SuccessAfterTransient ==
    \A c \in Calls :
        (opLog[c] # << >> /\ opLog[c][Len(opLog[c])].kind = "returned") =>
            LET j == Len(opLog[c]) - 1 IN
            /\ \A i \in 1..j : TransientFailure(opLog[c][i])
            /\ j < maxRetries[c]
            /\ callPc[c] = "done"
            /\ callOutcome[c] = opLog[c][j + 1]
            /\ invoked[c] = j + 1
            /\ Len(delayLog[c]) = j
            /\ \A i \in 1..j : delayLog[c][i].delay = initialDelay[c] * (2 ^ (i - 1))
            /\ (j = 2 /\ initialDelay[c] = 1000) => DelaysOf(c) = <<1000, 2000>>

C3_Witness ==
    /\ callPc["c1"] = "done"
    /\ maxRetries["c1"] = DefaultMaxRetries
    /\ initialDelay["c1"] = DefaultInitialDelay
    /\ opLog["c1"] = <<Threw(ProviderError(Msg503)), Threw(ProviderError(Msg503)),
                       Returned("resultA")>>
    /\ callOutcome["c1"] = Returned("resultA")
    /\ invoked["c1"] = 3
    /\ DelaysOf("c1") = <<1000, 2000>>

\* C4 as stated: the delay taken before attempt k (0-indexed) is
\* initialDelay * 2^k.
C4_DelayBeforeAttempt ==
    \A c \in Calls :
        (callPc[c] = "calling" /\ attempt[c] >= 1) =>
            /\ delayLog[c] # << >>
            /\ delayLog[c][Len(delayLog[c])].delay = initialDelay[c] * (2 ^ attempt[c])

\* C4 as amended: the delay taken after failed attempt k (0-indexed), which is
\* the delay before attempt k+1 when there is one, is initialDelay * 2^k,
\* whatever the error; an all-transient run with maxRetries = 3 and
\* initialDelay = d takes the delays d, 2d, 4d in that order.
C4_DelayAfterAttempt ==
    \A c \in Calls :
        /\ \A i \in 1..Len(delayLog[c]) :
               /\ delayLog[c][i].attempt = i - 1
               /\ TransientFailure(opLog[c][i])
               /\ delayLog[c][i].delay = initialDelay[c] * (2 ^ (i - 1))
        /\ (callPc[c] = "calling" /\ attempt[c] >= 1) =>
               /\ Len(delayLog[c]) = attempt[c]
               /\ delayLog[c][attempt[c]].delay = initialDelay[c] * (2 ^ (attempt[c] - 1))
        /\ (callPc[c] = "done" /\ maxRetries[c] = 3 /\ AllTransientFailures(opLog[c])) =>
               DelaysOf(c) = <<initialDelay[c], 2 * initialDelay[c], 4 * initialDelay[c]>>

C4_Witness ==
    /\ callPc["c1"] = "done"
    /\ maxRetries["c1"] = 3
    /\ initialDelay["c1"] = 250
    /\ AllTransientFailures(opLog["c1"])
    /\ DelaysOf("c1") = <<250, 500, 1000>>

(***************************************************************************)
(* Text primitives of the response normalizer.                             *)
(***************************************************************************)
\* the white space String.prototype.trim and JSON.parse skip
IsWs(ch) == ch \in {" ", "\n", "\t", "\r"}

RECURSIVE SkipWs(_, _)
\* the first position at or after i that holds no white space
SkipWs(s, i) == IF i <= Len(s) /\ IsWs(s[i]) THEN SkipWs(s, i + 1) ELSE i

RECURSIVE SkipWsBack(_, _)
\* the last position at or before i that holds no white space
SkipWsBack(s, i) == IF i >= 1 /\ IsWs(s[i]) THEN SkipWsBack(s, i - 1) ELSE i

\* String.prototype.trim
Trim(s) == SubSeq(s, SkipWs(s, 1), SkipWsBack(s, Len(s)))

\* pat occurs in s at position i
StartsWithAt(s, i, pat) ==
    /\ i + Len(pat) - 1 <= Len(s)
    /\ \A j \in 1..Len(pat) : s[i + j - 1] = pat[j]

SetMin(S) == CHOOSE x \in S : \A y \in S : x <= y
SetMax(S) == CHOOSE x \in S : \A y \in S : x >= y

\* the grave accent, which a string of this language cannot hold
Backtick == "GRAVE"

\* the opening and the closing fence of a fenced json block
FenceOpen == <<Backtick, Backtick, Backtick, "j", "s", "o", "n", "\n">>
FenceClose == <<"\n", Backtick, Backtick, Backtick>>

\* the positions where the fence pattern of extractJson can start a match:
\* an opening fence with a closing fence somewhere after it
FenceStarts(text) ==
    {p \in 1..Len(text) :
        /\ StartsWithAt(text, p, FenceOpen)
        /\ \E q \in (p + Len(FenceOpen))..Len(text) : StartsWithAt(text, q, FenceClose)}

\* match[1] of the leftmost match: the lazy group ends at the first closing fence
FenceCapture(text) ==
    LET p == SetMin(FenceStarts(text))
        a == p + Len(FenceOpen)
        q == SetMin({k \in a..Len(text) : StartsWithAt(text, k, FenceClose)})
    IN  SubSeq(text, a, q - 1)

\* text[p] opens a span that some later character closes
OpensSpan(text, p, open, close) ==
    /\ text[p] = open
    /\ \E q \in (p + 1)..Len(text) : text[q] = close

\* the positions where the bracket-or-brace pattern of extractJson can start a match
SpanStarts(text) ==
    {p \in 1..Len(text) : OpensSpan(text, p, "[", "]") \/ OpensSpan(text, p, "{", "}")}

\* the span with a lazy body: it ends at the first closer after its opener
SpanCaptureToFirstCloser(text) ==
    LET p == SetMin(SpanStarts(text))
        close == IF text[p] = "[" THEN "]" ELSE "}"
        q == SetMin({k \in (p + 1)..Len(text) : text[k] = close})
    IN  SubSeq(text, p, q)

\* jsonMatch[0] of the leftmost match: the greedy body runs to the last closer
SpanCapture(text) ==
    LET p == SetMin(SpanStarts(text))
        close == IF text[p] = "[" THEN "]" ELSE "}"
        q == SetMax({k \in (p + 1)..Len(text) : text[k] = close})
    IN  SubSeq(text, p, q)

\* the first alternative of extractJson dropped: the fence is never looked for
extractJsonSpanOnly(text) ==
    IF SpanStarts(text) # {} THEN SpanCapture(text)
    ELSE text

extractJson(text) ==
    IF FenceStarts(text) # {} THEN FenceCapture(text)
    ELSE IF SpanStarts(text) # {} THEN SpanCapture(text)
    ELSE text

(***************************************************************************)
(* JSON.parse.  A value is a record tagged by t: "obj" with its fields in   *)
(* property order (each a name and a value), "arr" with its items, "str"   *)
(* with its characters, "num" with its integer value, or with its literal  *)
(* when it is written with a fraction or an exponent, "lit" for true,      *)
(* false and null, and "undefined".                                        *)
(***************************************************************************)
Digits == <<"0", "1", "2", "3", "4", "5", "6", "7", "8", "9">>
IsDigit(ch) == \E i \in 1..Len(Digits) : Digits[i] = ch
DigitValue(ch) == (CHOOSE i \in 1..Len(Digits) : Digits[i] = ch) - 1
HexDigits ==
    <<"0", "1", "2", "3", "4", "5", "6", "7", "8", "9", "a", "b", "c", "d", "e", "f">>
IsHexDigit(ch) == \E i \in 1..Len(HexDigits) : HexDigits[i] = LowerChar(ch)
HexValue(ch) == (CHOOSE i \in 1..Len(HexDigits) : HexDigits[i] = LowerChar(ch)) - 1

\* the characters from the space to the tilde, in code order
Ascii ==
    <<" ", "!", "\"", "#", "$", "%", "&", "'", "(", ")", "*", "+", ",", "-", ".", "/",
      "0", "1", "2", "3", "4", "5", "6", "7", "8", "9", ":", ";", "<", "=", ">", "?",
      "@", "A", "B", "C", "D", "E", "F", "G", "H", "I", "J", "K", "L", "M", "N", "O",
      "P", "Q", "R", "S", "T", "U", "V", "W", "X", "Y", "Z", "[", "\\", "]", "^", "_",
      Backtick, "a", "b", "c", "d", "e", "f", "g", "h", "i", "j", "k", "l", "m", "n", "o",
      "p", "q", "r", "s", "t", "u", "v", "w", "x", "y", "z", "{", "|", "}", "~">>

\* the character of a code unit; the units outside the table are not told apart
CharOfCode(code) ==
    IF code >= 32 /\ code <= 126 THEN Ascii[code - 31]
    ELSE CASE code = 8 -> "BACKSPACE"
           [] code = 9 -> "\t"
           [] code = 10 -> "\n"
           [] code = 12 -> "\f"
           [] code = 13 -> "\r"
           [] OTHER -> "NONASCII"

\* the characters a string may not hold unescaped
IsControl(ch) == ch \in {"\n", "\t", "\r"}

\* the character an escape of one letter stands for (backspace is not a
\* character of this language's strings and is written as a token)
EscapedBy ==
    [x \in {"\"", "\\", "/", "b", "f", "n", "r", "t"} |->
        CASE x = "b" -> "BACKSPACE"
          [] x = "f" -> "\f"
          [] x = "n" -> "\n"
          [] x = "r" -> "\r"
          [] x = "t" -> "\t"
          [] OTHER -> x]

ParseFail == [ok |-> FALSE, next |-> 0, val |-> [t |-> "none"]]
ParseOk(v, n) == [ok |-> TRUE, next |-> n, val |-> v]

RECURSIVE SkipDigits(_, _)
\* the first position at or after i that holds no digit
SkipDigits(s, i) == IF i <= Len(s) /\ IsDigit(s[i]) THEN SkipDigits(s, i + 1) ELSE i

RECURSIVE DigitsValue(_, _, _)
\* the number written by the digits s[a..b]
DigitsValue(s, a, b) ==
    IF b < a THEN 0 ELSE 10 * DigitsValue(s, a, b - 1) + DigitValue(s[b])

RECURSIVE ScanString(_, _, _)
\* the rest of a string whose opening quote has been read
ScanString(s, j, acc) ==
    IF j > Len(s) THEN ParseFail
    ELSE IF s[j] = "\"" THEN ParseOk([t |-> "str", chars |-> acc], j + 1)
    ELSE IF s[j] = "\\" THEN
        IF j + 1 <= Len(s) /\ s[j + 1] \in DOMAIN EscapedBy
        THEN ScanString(s, j + 2, Append(acc, EscapedBy[s[j + 1]]))
        ELSE IF /\ j + 5 <= Len(s)
                /\ s[j + 1] = "u"
                /\ \A k \in 2..5 : IsHexDigit(s[j + k])
        THEN ScanString(s, j + 6,
                 Append(acc, CharOfCode(4096 * HexValue(s[j + 2]) + 256 * HexValue(s[j + 3])
                                        + 16 * HexValue(s[j + 4]) + HexValue(s[j + 5]))))
        ELSE ParseFail
    ELSE IF IsControl(s[j]) THEN ParseFail
    ELSE ScanString(s, j + 1, Append(acc, s[j]))

\* a number starting at i: -? (0 | [1-9][0-9]*) (. [0-9]+)? ([eE] [+-]? [0-9]+)?
ParseNumber(s, i) ==
    LET a == IF s[i] = "-" THEN i + 1 ELSE i
        b == SkipDigits(s, a)
        intOk == b > a /\ (s[a] = "0" => b = a + 1)
        hasFrac == b <= Len(s) /\ s[b] = "."
        c == IF hasFrac THEN SkipDigits(s, b + 1) ELSE b
        fracOk == hasFrac => c > b + 1
        hasExp == c <= Len(s) /\ s[c] \in {"e", "E"}
        d == IF hasExp /\ c + 1 <= Len(s) /\ s[c + 1] \in {"+", "-"} THEN c + 2 ELSE c + 1
        e == IF hasExp THEN SkipDigits(s, d) ELSE c
        expOk == hasExp => e > d
    IN  IF ~(intOk /\ fracOk /\ expOk) THEN ParseFail
        ELSE IF hasFrac \/ hasExp
        THEN ParseOk([t |-> "num", lit |-> SubSeq(s, i, e - 1)], e)
        ELSE ParseOk([t |-> "num",
                      int |-> IF a > i THEN 0 - DigitsValue(s, a, b - 1)
                              ELSE DigitsValue(s, a, b - 1)], e)

\* true, false or null starting at i
ParseLiteral(s, i) ==
    IF StartsWithAt(s, i, <<"t", "r", "u", "e">>)
    THEN ParseOk([t |-> "lit", name |-> "true"], i + 4)
    ELSE IF StartsWithAt(s, i, <<"f", "a", "l", "s", "e">>)
    THEN ParseOk([t |-> "lit", name |-> "false"], i + 5)
    ELSE IF StartsWithAt(s, i, <<"n", "u", "l", "l">>)
    THEN ParseOk([t |-> "lit", name |-> "null"], i + 4)
    ELSE ParseFail

Undefined == [t |-> "undefined"]
IsNull(v) == v.t = "lit" /\ v.name = "null"

\* an array index as a property name: a canonical numeric string
IsIndexName(k) ==
    /\ Len(k) >= 1
    /\ \A i \in 1..Len(k) : IsDigit(k[i])
    /\ k[1] = "0" => Len(k) = 1

HasField(fields, k) == \E i \in 1..Len(fields) : fields[i].name = k

\* the place a new property k takes in property order: index names come
\* first, in ascending numeric order, then the other names in creation order
FieldPlace(fields, k) ==
    IF IsIndexName(k)
    THEN 1 + Cardinality({i \in 1..Len(fields) :
                 /\ IsIndexName(fields[i].name)
                 /\ DigitsValue(fields[i].name, 1, Len(fields[i].name))
                        < DigitsValue(k, 1, Len(k))})
    ELSE Len(fields) + 1

\* fields with property k set to v
PutField(fields, k, v) ==
    IF HasField(fields, k)
    THEN [i \in 1..Len(fields) |->
             IF fields[i].name = k THEN [name |-> k, value |-> v] ELSE fields[i]]
    ELSE SubSeq(fields, 1, FieldPlace(fields, k) - 1)
             \o <<[name |-> k, value |-> v]>>
             \o SubSeq(fields, FieldPlace(fields, k), Len(fields))

\* the value of property k of an object value; undefined when it has none
Field(v, k) ==
    IF v.t = "obj" /\ HasField(v.fields, k)
    THEN v.fields[CHOOSE i \in 1..Len(v.fields) : v.fields[i].name = k].value
    ELSE Undefined

RECURSIVE ParseValue(_, _), ParseElements(_, _, _), ParseMembers(_, _, _)
\* a value starting at or after i0, white space skipped
ParseValue(s, i0) ==
    LET i == SkipWs(s, i0)
        j == SkipWs(s, i + 1)
    IN  IF i > Len(s) THEN ParseFail
        ELSE IF s[i] = "{" THEN
            IF j <= Len(s) /\ s[j] = "}"
            THEN ParseOk([t |-> "obj", fields |-> << >>], j + 1)
            ELSE ParseMembers(s, j, << >>)
        ELSE IF s[i] = "[" THEN
            IF j <= Len(s) /\ s[j] = "]"
            THEN ParseOk([t |-> "arr", items |-> << >>], j + 1)
            ELSE ParseElements(s, j, << >>)
        ELSE IF s[i] = "\"" THEN ScanString(s, i + 1, << >>)
        ELSE IF s[i] = "-" \/ IsDigit(s[i]) THEN ParseNumber(s, i)
        ELSE ParseLiteral(s, i)

\* the elements of an array from i on, those before i gathered in acc
ParseElements(s, i, acc) ==
    LET r == ParseValue(s, i)
        j == SkipWs(s, r.next)
    IN  IF ~r.ok \/ j > Len(s) THEN ParseFail
        ELSE IF s[j] = "," THEN ParseElements(s, j + 1, Append(acc, r.val))
        ELSE IF s[j] = "]" THEN ParseOk([t |-> "arr", items |-> Append(acc, r.val)], j + 1)
        ELSE ParseFail

\* the members of an object from i on, those before i gathered in fields
ParseMembers(s, i, fields) ==
    LET k == SkipWs(s, i)
        key == IF k <= Len(s) /\ s[k] = "\"" THEN ScanString(s, k + 1, << >>) ELSE ParseFail
        c == SkipWs(s, key.next)
        r == IF key.ok /\ c <= Len(s) /\ s[c] = ":" THEN ParseValue(s, c + 1) ELSE ParseFail
        j == SkipWs(s, r.next)
    IN  IF ~r.ok \/ j > Len(s) THEN ParseFail
        ELSE IF s[j] = ","
        THEN ParseMembers(s, j + 1, PutField(fields, key.val.chars, r.val))
        ELSE IF s[j] = "}"
        THEN ParseOk([t |-> "obj", fields |-> PutField(fields, key.val.chars, r.val)], j + 1)
        ELSE ParseFail

\* JSON.parse: one value, with nothing but white space around it
JsonParse(s) ==
    LET r == ParseValue(s, 1)
    IN  IF r.ok /\ SkipWs(s, r.next) = Len(s) + 1
        THEN [ok |-> TRUE, val |-> r.val]
        ELSE [ok |-> FALSE, val |-> [t |-> "none"]]

(***************************************************************************)
(* JSON.stringify, and the conversion of a value to a property name.       *)
(***************************************************************************)
RECURSIVE NatToChars(_)
\* the decimal digits of a natural number
NatToChars(n) ==
    IF n < 10 THEN <<Digits[n + 1]>>
    ELSE NatToChars(n \div 10) \o <<Digits[(n % 10) + 1]>>

IntToChars(n) == IF n < 0 THEN <<"-">> \o NatToChars(0 - n) ELSE NatToChars(n)

\* the characters of true, false, null and undefined
WordChars ==
    [true |-> <<"t", "r", "u", "e">>,
     false |-> <<"f", "a", "l", "s", "e">>,
     null |-> <<"n", "u", "l", "l">>,
     undefined |-> <<"u", "n", "d", "e", "f", "i", "n", "e", "d">>]

\* one character of a string as JSON.stringify writes it
QuoteChar(ch) ==
    CASE ch = "\"" -> <<"\\", "\"">>
      [] ch = "\\" -> <<"\\", "\\">>
      [] ch = "\n" -> <<"\\", "n">>
      [] ch = "\t" -> <<"\\", "t">>
      [] ch = "\r" -> <<"\\", "r">>
      [] ch = "\f" -> <<"\\", "f">>
      [] ch = "BACKSPACE" -> <<"\\", "b">>
      [] OTHER -> <<ch>>

RECURSIVE QuoteChars(_, _)
QuoteChars(s, i) == IF i > Len(s) THEN << >> ELSE QuoteChar(s[i]) \o QuoteChars(s, i + 1)

\* a string as JSON.stringify writes it
Quote(s) == <<"\"">> \o QuoteChars(s, 1) \o <<"\"">>

\* JSON.stringify leaves out the properties whose value is undefined
IsDefinedField(f) == f.value.t # "undefined"

RECURSIVE JsonStringify(_), StringifyItems(_, _), StringifyFields(_, _)
\* JSON.stringify of a value that is not undefined
JsonStringify(v) ==
    CASE v.t = "str" -> Quote(v.chars)
      [] v.t = "num" -> IF "int" \in DOMAIN v THEN IntToChars(v.int) ELSE v.lit
      [] v.t = "lit" -> WordChars[v.name]
      [] v.t = "arr" -> <<"[">> \o StringifyItems(v.items, 1) \o <<"]">>
      [] v.t = "obj" ->
            <<"{">> \o StringifyFields(SelectSeq(v.fields, IsDefinedField), 1) \o <<"}">>

\* the items of an array from the i-th on; an undefined item is written null
StringifyItems(items, i) ==
    IF i > Len(items) THEN << >>
    ELSE (IF i > 1 THEN <<",">> ELSE << >>)
             \o (IF items[i].t = "undefined" THEN WordChars["null"]
                 ELSE JsonStringify(items[i]))
             \o StringifyItems(items, i + 1)

\* the properties of an object from the i-th on
StringifyFields(fields, i) ==
    IF i > Len(fields) THEN << >>
    ELSE (IF i > 1 THEN <<",">> ELSE << >>)
             \o Quote(fields[i].name) \o <<":">> \o JsonStringify(fields[i].value)
             \o StringifyFields(fields, i + 1)

RECURSIVE PropertyKey(_), JoinItems(_, _)
\* the property name a value used as a key is converted to
PropertyKey(v) ==
    CASE v.t = "str" -> v.chars
      [] v.t = "num" -> IF "int" \in DOMAIN v THEN IntToChars(v.int) ELSE v.lit
      [] v.t = "lit" -> WordChars[v.name]
      [] v.t = "undefined" -> WordChars["undefined"]
      [] v.t = "arr" -> JoinItems(v.items, 1)
      [] v.t = "obj" ->
            <<"[", "o", "b", "j", "e", "c", "t", " ", "O", "b", "j", "e", "c", "t", "]">>

\* Array.prototype.join: null and undefined items are written empty
JoinItems(items, i) ==
    IF i > Len(items) THEN << >>
    ELSE (IF i > 1 THEN <<",">> ELSE << >>)
             \o (IF items[i].t = "undefined" \/ IsNull(items[i]) THEN << >>
                 ELSE PropertyKey(items[i]))
             \o JoinItems(items, i + 1)

(***************************************************************************)
(* The provider responses the model hands to processApiResponse: the text  *)
(* of the first part of the first candidate, promptFeedback.blockReason,   *)
(* and the first candidate's finishReason.  An empty sequence stands for   *)
(* a field that is absent or the empty string; the code tests all three    *)
(* fields for truthiness only, which does not tell the two apart.          *)
(***************************************************************************)
ReasonSafety ==
    <<"S", "A", "F", "E", "T", "Y">>
ReasonOther ==
    <<"O", "T", "H", "E", "R">>
FinishStop ==
    <<"S", "T", "O", "P">>
FinishMaxTokens ==
    <<"M", "A", "X", "_", "T", "O", "K", "E", "N", "S">>
TextObject ==
    <<"{", "\"", "a", "\"", ":", "1", "}">>
TextArray ==
    <<"[", "1", ",", "2", "]">>
TextFenced ==
    <<Backtick, Backtick, Backtick, "j", "s", "o", "n", "\n", "{", "\"", "a", "\"", ":", "1",
      "}", "\n", Backtick, Backtick, Backtick>>
TextFencedProse ==
    <<"S", "u", "r", "e", " ", "[", "1", "]", ":", "\n", Backtick, Backtick, Backtick, "j",
      "s", "o", "n", "\n", "{", "\"", "a", "\"", ":", "1", "}", "\n", Backtick, Backtick,
      Backtick, "\n", "D", "o", "n", "e", ".">>
TextInProse ==
    <<"H", "e", "r", "e", ":", " ", "{", "\"", "a", "\"", ":", "1", "}", " ", "o", "k">>
TextPlain ==
    <<"S", "o", "r", "r", "y", ",", " ", "I", " ", "c", "a", "n", "n", "o", "t", " ", "h", "e",
      "l", "p", ".">>
TextTruncated ==
    <<"{", "\"", "a", "\"", ":">>
TextBlank ==
    <<" ", " ">>
TextPadded ==
    <<" ", "{", "\"", "a", "\"", ":", "1", "}", "\n">>
TextStray ==
    <<"{", "a", "}", " ", "[", "1", "]">>
TextNested ==
    <<"{", "\"", "a", "\"", ":", "[", "1", ",", "{", "\"", "b", "\"", ":", "\"", "x", "\"",
      "}", "]", ",", "\"", "a", "\"", ":", "n", "u", "l", "l", "}">>
TextTwoObjects ==
    <<"{", "\"", "a", "\"", ":", "1", "}", " ", "{", "\"", "b", "\"", ":", "2", "}">>

ResponseTexts ==
    {<< >>, TextObject, TextArray, TextFenced, TextFencedProse, TextInProse, TextPlain,
     TextTruncated, TextBlank, TextPadded, TextStray, TextNested, TextTwoObjects}
BlockReasons == {<< >>, ReasonSafety, ReasonOther}
FinishReasons == {<< >>, FinishStop, FinishMaxTokens, ReasonSafety}

Responses ==
    [text : ResponseTexts, blockReason : BlockReasons, finishReason : FinishReasons]

(***************************************************************************)
(* processApiResponse                                                      *)
(***************************************************************************)
BlockedPrefix ==
    <<"R", "e", "q", "u", "e", "s", "t", " ", "b", "l", "o", "c", "k", "e", "d", " ", "d", "u",
      "e", " ", "t", "o", " ", "s", "a", "f", "e", "t", "y", " ", "c", "o", "n", "c", "e", "r",
      "n", "s", ":", " ">>
StoppedPrefix ==
    <<"T", "h", "e", " ", "A", "I", " ", "m", "o", "d", "e", "l", " ", "s", "t", "o", "p", "p",
      "e", "d", " ", "g", "e", "n", "e", "r", "a", "t", "i", "n", "g", " ", "u", "n", "e", "x",
      "p", "e", "c", "t", "e", "d", "l", "y", ":", " ">>
EmptyMessage ==
    <<"T", "h", "e", " ", "A", "I", " ", "m", "o", "d", "e", "l", " ", "r", "e", "t", "u", "r",
      "n", "e", "d", " ", "a", "n", " ", "e", "m", "p", "t", "y", " ", "r", "e", "s", "p", "o",
      "n", "s", "e", ".">>
MalformedMessage ==
    <<"T", "h", "e", " ", "A", "I", " ", "m", "o", "d", "e", "l", " ", "r", "e", "t", "u", "r",
      "n", "e", "d", " ", "a", " ", "m", "a", "l", "f", "o", "r", "m", "e", "d", " ", "r", "e",
      "s", "p", "o", "n", "s", "e", ".">>

\* an Error constructed by processApiResponse
NormError(m) == [origin |-> "processApiResponse", message |-> m]

\* the truthiness of a string that may be absent
Truthy(s) == s # << >>

\* the comparison with 'STOP' dropped: any finish reason counts
IsAbnormalFinishAnyReason(finishReason) == Truthy(finishReason)

\* finishReason && finishReason !== 'STOP'
IsAbnormalFinish(finishReason) == Truthy(finishReason) /\ finishReason # FinishStop

\* the throw of the branch taken when the response has no text
NoTextError(r) ==
    IF Truthy(r.blockReason)
    THEN NormError(BlockedPrefix \o r.blockReason)
    ELSE IF IsAbnormalFinish(r.finishReason)
    THEN NormError(StoppedPrefix \o r.finishReason \o <<".">>)
    ELSE NormError(EmptyMessage)

\* JSON.parse(extractJson(text.trim()))
ParsedText(text) == JsonParse(extractJson(Trim(text)))

\* processApiResponse, from the response to the return or the throw; the
\* failing parse is logged with the text and rethrown as a fresh Error
processApiResponse ==
    /\ normPc = "ready"
    /\ normPc' = "done"
    /\ normBy' = "processApiResponse"
    /\ IF ~Truthy(response.text)
       THEN /\ normOutcome' = Threw(NoTextError(response))
            /\ UNCHANGED consoleErrors
       ELSE IF ParsedText(response.text).ok
       THEN /\ normOutcome' = Returned(ParsedText(response.text).val)
            /\ UNCHANGED consoleErrors
       ELSE /\ normOutcome' = Threw(NormError(MalformedMessage))
            /\ consoleErrors' = Append(consoleErrors, response.text)
    /\ jsonString' = IF Truthy(response.text) THEN extractJson(Trim(response.text))
                     ELSE jsonString
    /\ UNCHANGED response

(***************************************************************************)
(* parseGeminiJson, the normalizer of the function-side services, applied  *)
(* to response.text.                                                       *)
(***************************************************************************)
MalformedDataMessage ==
    <<"R", "e", "c", "e", "i", "v", "e", "d", " ", "m", "a", "l", "f", "o", "r", "m", "e", "d",
      " ", "J", "S", "O", "N", " ", "d", "a", "t", "a", " ", "f", "r", "o", "m", " ", "t", "h",
      "e", " ", "A", "P", "I", ".">>
NoJsonMessage ==
    <<"N", "o", " ", "v", "a", "l", "i", "d", " ", "J", "S", "O", "N", " ", "f", "o", "u", "n",
      "d", " ", "i", "n", " ", "t", "h", "e", " ", "A", "P", "I", " ", "r", "e", "s", "p", "o",
      "n", "s", "e", ".">>

\* an Error constructed by parseGeminiJson
GeminiJsonError(m) == [origin |-> "parseGeminiJson", message |-> m]

\* String.prototype.indexOf and lastIndexOf of one character, 1-based; 0 for -1
IndexOf(text, ch) ==
    IF \E p \in 1..Len(text) : text[p] = ch
    THEN SetMin({p \in 1..Len(text) : text[p] = ch})
    ELSE 0
LastIndexOf(text, ch) ==
    IF \E p \in 1..Len(text) : text[p] = ch
    THEN SetMax({p \in 1..Len(text) : text[p] = ch})
    ELSE 0

\* startIndex !== -1 && endIndex !== -1 && endIndex > startIndex
HasDelimited(text, open, close) ==
    /\ IndexOf(text, open) # 0
    /\ LastIndexOf(text, close) # 0
    /\ LastIndexOf(text, close) > IndexOf(text, open)

\* text.substring(startIndex, endIndex + 1)
Delimited(text, open, close) == SubSeq(text, IndexOf(text, open), LastIndexOf(text, close))

\* the string parseGeminiJson hands to JSON.parse: the braces are tried
\* first, the brackets only when the text holds no pair of braces
GeminiJsonString(text) ==
    IF HasDelimited(text, "{", "}") THEN Delimited(text, "{", "}")
    ELSE Delimited(text, "[", "]")

parseGeminiJson ==
    /\ normPc = "ready"
    /\ normPc' = "done"
    /\ normBy' = "parseGeminiJson"
    /\ IF HasDelimited(response.text, "{", "}") \/ HasDelimited(response.text, "[", "]")
       THEN IF JsonParse(GeminiJsonString(response.text)).ok
            THEN /\ normOutcome' = Returned(JsonParse(GeminiJsonString(response.text)).val)
                 /\ UNCHANGED consoleErrors
            ELSE /\ normOutcome' = Threw(GeminiJsonError(MalformedDataMessage))
                 /\ consoleErrors' = Append(consoleErrors, GeminiJsonString(response.text))
       ELSE /\ normOutcome' = Threw(GeminiJsonError(NoJsonMessage))
            /\ consoleErrors' = Append(consoleErrors, response.text)
    /\ jsonString' =
           IF HasDelimited(response.text, "{", "}") \/ HasDelimited(response.text, "[", "]")
           THEN GeminiJsonString(response.text)
           ELSE jsonString
    /\ UNCHANGED response

(***************************************************************************)
(* SpecNorm: one of the two normalizers applied to one provider response,  *)
(* drawn from Responses.                                                   *)
(***************************************************************************)
InitNorm ==
    /\ RetryIdle
    /\ CompareIdle
    /\ UiIdle
    /\ ServiceIdle
    /\ normPc = "ready"
    /\ normBy = "none"
    /\ response \in Responses
    /\ normOutcome = NoOutcome
    /\ consoleErrors = << >>
    /\ jsonString = << >>

NextNorm ==
    \/ processApiResponse /\ UNCHANGED outsideNorm
    \/ parseGeminiJson /\ UNCHANGED outsideNorm

SpecNorm == InitNorm /\ [][NextNorm]_vars

(***************************************************************************)
(* Claims about the response normalizer, checked under SpecNorm.           *)
(***************************************************************************)
\* processApiResponse has run on response
Normalized == normPc = "done" /\ normBy = "processApiResponse"

\* the four error conditions, told apart by what the caller receives
BlockedContent(o, reason) ==
    o.kind = "threw" /\ o.error.message = BlockedPrefix \o reason
AbnormalTermination(o, reason) ==
    o.kind = "threw" /\ o.error.message = StoppedPrefix \o reason \o <<".">>
EmptyResponse(o) ==
    o.kind = "threw" /\ o.error.message = EmptyMessage
MalformedJSON(o) ==
    o.kind = "threw" /\ o.error.message \in {MalformedMessage, MalformedDataMessage, NoJsonMessage}

\* C5: once processApiResponse has run on a response whose blockReason is set,
\* the outcome is the BlockedContent error carrying that reason, whether or not
\* the response also has text.
C5_BlockedRegardlessOfText ==
    (Normalized /\ Truthy(response.blockReason))
        => BlockedContent(normOutcome, response.blockReason)

\* a response with a blockReason and a text that parses is returned as a success
C5_BlockedReturned ==
    /\ Normalized
    /\ response.blockReason = ReasonSafety
    /\ response.text = TextObject
    /\ normOutcome.kind = "returned"

\* C6: once processApiResponse has run on a response with no blockReason and a
\* finishReason that is present and not 'STOP', the outcome is the
\* AbnormalTermination error with that reason, also when the response has text.
C6_AbnormalRegardlessOfText ==
    (/\ Normalized
     /\ ~Truthy(response.blockReason)
     /\ Truthy(response.finishReason)
     /\ response.finishReason # FinishStop)
        => AbnormalTermination(normOutcome, response.finishReason)

\* a response cut off by MAX_TOKENS is reported as malformed
C6_TruncatedMalformed ==
    /\ Normalized
    /\ ~Truthy(response.blockReason)
    /\ response.finishReason = FinishMaxTokens
    /\ response.text = TextTruncated
    /\ MalformedJSON(normOutcome)

\* C7: once processApiResponse has run on a response with no text, no
\* blockReason and a finishReason that is absent or 'STOP', the outcome is the
\* EmptyResponse error, and it is none of the three other error conditions.
C7_EmptyResponse ==
    (/\ Normalized
     /\ ~Truthy(response.text)
     /\ ~Truthy(response.blockReason)
     /\ response.finishReason \in {<< >>, FinishStop})
        => /\ EmptyResponse(normOutcome)
           /\ \A reason \in BlockReasons \cup FinishReasons :
                  /\ ~BlockedContent(normOutcome, reason)
                  /\ ~AbnormalTermination(normOutcome, reason)
           /\ ~MalformedJSON(normOutcome)

\* the empty response that finished with 'STOP' has been normalized
C7_Witness ==
    /\ Normalized
    /\ ~Truthy(response.text)
    /\ ~Truthy(response.blockReason)
    /\ response.finishReason = FinishStop
    /\ EmptyResponse(normOutcome)

\* JSON.parse of the span the normalizer that ran extracted has failed
ParseFailed ==
    /\ normPc = "done"
    /\ Truthy(response.text)
    /\ IF normBy = "processApiResponse"
       THEN ~ParsedText(response.text).ok
       ELSE \/ ~(HasDelimited(response.text, "{", "}") \/ HasDelimited(response.text, "[", "]"))
            \/ ~JsonParse(GeminiJsonString(response.text)).ok

\* C8: when JSON parsing of the extracted span has failed, the normalizer has
\* thrown the malformed-response error, no data is returned, and the error the
\* caller receives carries the response text.
C8_MalformedCarriesText ==
    ParseFailed
        => /\ MalformedJSON(normOutcome)
           /\ Includes(normOutcome.error.message, response.text)

\* a plain-text answer is rejected with the fixed message; the text goes to
\* the console only
C8_TextOnlyLogged ==
    /\ ParseFailed
    /\ response.text = TextPlain
    /\ MalformedJSON(normOutcome)
    /\ ~Includes(normOutcome.error.message, response.text)
    /\ consoleErrors = <<response.text>>

(***************************************************************************)
(* The compare operation: comparePapers of src/services/geminiService.ts   *)
(* (entry "service") and the comparePapers function handler (entry         *)
(* "handler").  Both send one prompt through callApiWithRetry, invocation  *)
(* "c1", and hand the response to processApiResponse.  The prompt's text   *)
(* is not modelled: the provider's answer is drawn independently of it.    *)
(***************************************************************************)
\* largest number of papers handed to the compare operation
MaxPapers == 3

NameComparison ==
    <<"c", "o", "m", "p", "a", "r", "i", "s", "o", "n">>
NamePapers ==
    <<"p", "a", "p", "e", "r", "s">>
NamePaperId ==
    <<"p", "a", "p", "e", "r", "I", "d">>
NameValue ==
    <<"v", "a", "l", "u", "e">>
NameConfidenceScore ==
    <<"c", "o", "n", "f", "i", "d", "e", "n", "c", "e", "S", "c", "o", "r", "e">>
NameSourceSentence ==
    <<"s", "o", "u", "r", "c", "e", "S", "e", "n", "t", "e", "n", "c", "e">>
NameAspect ==
    <<"a", "s", "p", "e", "c", "t">>
NameAuthors ==
    <<"a", "u", "t", "h", "o", "r", "s">>
NameError ==
    <<"e", "r", "r", "o", "r">>
NameId ==
    <<"i", "d">>
NameTitle ==
    <<"t", "i", "t", "l", "e">>
NameYear ==
    <<"y", "e", "a", "r">>
NameAbstract ==
    <<"a", "b", "s", "t", "r", "a", "c", "t">>

Str(chars) == [t |-> "str", chars |-> chars]
Num(n) == [t |-> "num", int |-> n]
Arr(items) == [t |-> "arr", items |-> items]
Obj(fields) == [t |-> "obj", fields |-> fields]
Null == [t |-> "lit", name |-> "null"]

\* the i-th paper of the model, and a paper whose authors are missing
Paper(i) ==
    Obj(<<[name |-> NameId, value |-> Str(<<"p">> \o NatToChars(i))],
          [name |-> NameTitle, value |-> Str(<<"T">>)],
          [name |-> NameAuthors, value |-> Arr(<<Str(<<"A">>)>>)],
          [name |-> NameYear, value |-> Num(2020)],
          [name |-> NameAbstract, value |-> Str(<<"x">>)]>>)
PaperWithoutAuthors ==
    Obj(<<[name |-> NameId, value |-> Str(<<"q">>)],
          [name |-> NameTitle, value |-> Str(<<"T">>)]>>)

\* the paper lists handed to the compare operation
PaperLists ==
    {Arr([i \in 1..n |-> Paper(i)]) : n \in 0..MaxPapers}
        \cup {Arr(<<Paper(1), PaperWithoutAuthors>>)}

\* papers.map(p => `... ${p.authors.join(', ')} ...`) throws a TypeError
PromptThrows(papers) ==
    \E i \in 1..Len(papers.items) : Field(papers.items[i], NameAuthors).t # "arr"

TypeErrorMessage ==
    <<"C", "a", "n", "n", "o", "t", " ", "r", "e", "a", "d", " ", "p", "r", "o", "p", "e", "r",
      "t", "i", "e", "s", " ", "o", "f", " ", "u", "n", "d", "e", "f", "i", "n", "e", "d">>
SyntaxErrorMessage ==
    <<"U", "n", "e", "x", "p", "e", "c", "t", "e", "d", " ", "e", "n", "d", " ", "o", "f", " ",
      "J", "S", "O", "N", " ", "i", "n", "p", "u", "t">>

\* the errors the engine throws; their messages are the engine's
TypeError == [origin |-> "TypeError", message |-> TypeErrorMessage]
SyntaxError == [origin |-> "SyntaxError", message |-> SyntaxErrorMessage]

\* rawResult.comparison.map(...) and aspect.papers.forEach(...) run without a
\* TypeError: comparison is an array, each aspect's papers is an array, and no
\* entry of it is null
CanReshape(raw) ==
    /\ Field(raw, NameComparison).t = "arr"
    /\ \A i \in 1..Len(Field(raw, NameComparison).items) :
           LET aspect == Field(raw, NameComparison).items[i]
           IN  /\ Field(aspect, NamePapers).t = "arr"
               /\ \A j \in 1..Len(Field(aspect, NamePapers).items) :
                      ~IsNull(Field(aspect, NamePapers).items[j])

\* the point without its sourceSentence
ComparisonPointNoSource(paperData) ==
    Obj(<<[name |-> NameValue, value |-> Field(paperData, NameValue)],
          [name |-> NameConfidenceScore, value |-> Field(paperData, NameConfidenceScore)]>>)

\* the object assigned to papersObject[paperData.paperId]
ComparisonPoint(paperData) ==
    Obj(<<[name |-> NameValue, value |-> Field(paperData, NameValue)],
          [name |-> NameConfidenceScore, value |-> Field(paperData, NameConfidenceScore)],
          [name |-> NameSourceSentence, value |-> Field(paperData, NameSourceSentence)]>>)

RECURSIVE PapersObject(_, _, _)
\* aspect.papers.forEach(paperData => papersObject[paperData.paperId] = ...),
\* from the i-th entry on
PapersObject(list, i, acc) ==
    IF i > Len(list) THEN acc
    ELSE PapersObject(list, i + 1,
             PutField(acc, PropertyKey(Field(list[i], NamePaperId)), ComparisonPoint(list[i])))

\* the object the map callback returns for one aspect
ReshapedAspect(aspect) ==
    Obj(<<[name |-> NameAspect, value |-> Field(aspect, NameAspect)],
          [name |-> NamePapers,
           value |-> Obj(PapersObject(Field(aspect, NamePapers).items, 1, << >>))]>>)

\* Reshaped without the spread of rawResult: the comparison alone is returned
ReshapedWithoutSpread(raw) ==
    Obj(<<[name |-> NameComparison,
           value |-> Arr([i \in 1..Len(Field(raw, NameComparison).items) |->
                            ReshapedAspect(Field(raw, NameComparison).items[i])])]>>)

\* { ...rawResult, comparison: transformedComparison }
Reshaped(raw) ==
    Obj(PutField(raw.fields, NameComparison,
            Arr([i \in 1..Len(Field(raw, NameComparison).items) |->
                    ReshapedAspect(Field(raw, NameComparison).items[i])])))

MethodNotAllowedMessage ==
    <<"M", "e", "t", "h", "o", "d", " ", "N", "o", "t", " ", "A", "l", "l", "o", "w", "e", "d">>
TwoPapersMessage ==
    <<"A", "t", " ", "l", "e", "a", "s", "t", " ", "t", "w", "o", " ", "p", "a", "p", "e", "r",
      "s", " ", "a", "r", "e", " ", "r", "e", "q", "u", "i", "r", "e", "d", " ", "f", "o", "r",
      " ", "c", "o", "m", "p", "a", "r", "i", "s", "o", "n", ".">>
InternalErrorMessage ==
    <<"A", "n", " ", "i", "n", "t", "e", "r", "n", "a", "l", " ", "s", "e", "r", "v", "e", "r",
      " ", "e", "r", "r", "o", "r", " ", "o", "c", "c", "u", "r", "r", "e", "d", ".">>
BodyTruncated ==
    <<"{", "\"", "p", "a", "p", "e", "r", "s", "\"", ":">>
BodyNoArray ==
    <<"{", "\"", "p", "a", "p", "e", "r", "s", "\"", ":", "\"", "x", "\"", "}">>
TextComparison ==
    <<"{", "\"", "c", "o", "m", "p", "a", "r", "i", "s", "o", "n", "\"", ":", "[", "{", "\"",
      "a", "s", "p", "e", "c", "t", "\"", ":", "\"", "M", "\"", ",", "\"", "p", "a", "p", "e",
      "r", "s", "\"", ":", "[", "{", "\"", "p", "a", "p", "e", "r", "I", "d", "\"", ":", "\"",
      "p", "1", "\"", ",", "\"", "v", "a", "l", "u", "e", "\"", ":", "\"", "v", "\"", ",",
      "\"", "c", "o", "n", "f", "i", "d", "e", "n", "c", "e", "S", "c", "o", "r", "e", "\"",
      ":", "0", ".", "9", ",", "\"", "s", "o", "u", "r", "c", "e", "S", "e", "n", "t", "e",
      "n", "c", "e", "\"", ":", "\"", "s", "\"", "}", ",", "{", "\"", "p", "a", "p", "e", "r",
      "I", "d", "\"", ":", "\"", "p", "2", "\"", ",", "\"", "v", "a", "l", "u", "e", "\"", ":",
      "\"", "w", "\"", ",", "\"", "c", "o", "n", "f", "i", "d", "e", "n", "c", "e", "S", "c",
      "o", "r", "e", "\"", ":", "1", ",", "\"", "s", "o", "u", "r", "c", "e", "S", "e", "n",
      "t", "e", "n", "c", "e", "\"", ":", "\"", "t", "\"", "}", "]", "}", "]", ",", "\"", "o",
      "v", "e", "r", "a", "l", "l", "S", "y", "n", "t", "h", "e", "s", "i", "s", "\"", ":",
      "\"", "o", "\"", ",", "\"", "r", "e", "s", "e", "a", "r", "c", "h", "G", "a", "p", "s",
      "\"", ":", "[", "\"", "g", "\"", "]", ",", "\"", "h", "y", "p", "o", "t", "h", "e", "s",
      "i", "s", "\"", ":", "\"", "h", "\"", "}">>

\* the response of a function: returnError, and the success response
HttpResponse(statusCode, body) == [kind |-> "http", statusCode |-> statusCode, body |-> body]
returnError(statusCode, message) ==
    HttpResponse(statusCode, JsonStringify(Obj(<<[name |-> NameError, value |-> Str(message)]>>)))

\* error.message || "An internal server error occurred."
MessageOrDefault(e) == IF Truthy(e.message) THEN e.message ELSE InternalErrorMessage

\* the bodies that reach the handler: what JSON.stringify({ papers }) writes
\* for each paper list, no body, a body cut short, and a body whose papers is
\* not an array
EventBodies ==
    {JsonStringify(Obj(<<[name |-> NamePapers, value |-> list]>>)) : list \in PaperLists}
        \cup {<< >>, BodyTruncated, BodyNoArray}
HttpMethods == {"POST", "GET"}

\* JSON.parse(event.body || '{}')
ParsedBody(body) == JsonParse(IF Truthy(body) THEN body ELSE <<"{", "}">>)

\* !papers || !Array.isArray(papers) || papers.length < 2
TooFewPapers(papers) == papers.t # "arr" \/ Len(papers.items) < 2

\* callApiWithRetry(apiCall): the call, with the default arguments
CallApiWithRetry(c) ==
    /\ callPc[c] = "idle"
    /\ callPc' = [callPc EXCEPT ![c] = "loop"]
    /\ maxRetries' = [maxRetries EXCEPT ![c] = DefaultMaxRetries]
    /\ initialDelay' = [initialDelay EXCEPT ![c] = DefaultInitialDelay]
    /\ attempt' = [attempt EXCEPT ![c] = 0]
    /\ lastError' = [lastError EXCEPT ![c] = NoError]
    /\ UNCHANGED <<callOutcome, invoked, opLog, delayLog>>

\* comparePapers of the service, up to its await: the prompt is built and
\* callApiWithRetry is called; no check is made on the number of papers
comparePapers ==
    /\ cmpPc = "start"
    /\ cmpEntry = "service"
    /\ IF PromptThrows(cmpPapers)
       THEN /\ cmpPc' = "done"
            /\ cmpOutcome' = Threw(TypeError)
            /\ UNCHANGED retryVars
       ELSE /\ cmpPc' = "awaiting"
            /\ CallApiWithRetry("c1")
            /\ UNCHANGED cmpOutcome
    /\ UNCHANGED <<cmpEntry, cmpEvent, cmpPapers, providerRequests, normVars>>

\* the handler's catch block: the error is logged and answered with a 500
HandlerCaught(e) ==
    /\ cmpOutcome' = returnError(500, MessageOrDefault(e))
    /\ consoleErrors' = Append(consoleErrors, e.message)

\* the function handler, up to its await
comparePapersHandler ==
    /\ cmpPc = "start"
    /\ cmpEntry = "handler"
    /\ IF cmpEvent.httpMethod # "POST"
       THEN /\ cmpPc' = "done"
            /\ cmpOutcome' = returnError(405, MethodNotAllowedMessage)
            /\ UNCHANGED <<cmpPapers, retryVars, consoleErrors>>
       ELSE IF ~ParsedBody(cmpEvent.body).ok
       THEN /\ cmpPc' = "done"
            /\ HandlerCaught(SyntaxError)
            /\ UNCHANGED <<cmpPapers, retryVars>>
       ELSE IF IsNull(ParsedBody(cmpEvent.body).val)
       THEN /\ cmpPc' = "done"
            /\ HandlerCaught(TypeError)
            /\ UNCHANGED <<cmpPapers, retryVars>>
       ELSE /\ cmpPapers' = Field(ParsedBody(cmpEvent.body).val, NamePapers)
            /\ IF TooFewPapers(cmpPapers')
               THEN /\ cmpPc' = "done"
                    /\ cmpOutcome' = returnError(400, TwoPapersMessage)
                    /\ UNCHANGED <<retryVars, consoleErrors>>
               ELSE IF PromptThrows(cmpPapers')
               THEN /\ cmpPc' = "done"
                    /\ HandlerCaught(TypeError)
                    /\ UNCHANGED retryVars
               ELSE /\ cmpPc' = "awaiting"
                    /\ CallApiWithRetry("c1")
                    /\ UNCHANGED <<cmpOutcome, consoleErrors>>
    /\ UNCHANGED <<cmpEntry, cmpEvent, providerRequests, normPc, normBy, response, normOutcome, jsonString>>

\* one attempt of the wrapped operation: ai.models.generateContent is called
CompareInvoke ==
    /\ cmpPc = "awaiting"
    /\ Invoke("c1")
    /\ providerRequests' = providerRequests + 1
    /\ UNCHANGED <<cmpPc, cmpEntry, cmpEvent, cmpPapers, cmpOutcome, normVars>>

\* callApiWithRetry has settled: its error leaves the operation, or its
\* result is handed to processApiResponse
CompareSettled ==
    /\ cmpPc = "awaiting"
    /\ callPc["c1"] = "done"
    /\ IF callOutcome["c1"].kind = "threw"
       THEN /\ cmpPc' = "done"
            /\ IF cmpEntry = "service"
               THEN cmpOutcome' = callOutcome["c1"] /\ UNCHANGED consoleErrors
               ELSE HandlerCaught(callOutcome["c1"].error)
            /\ UNCHANGED <<normPc, normBy, response, normOutcome, jsonString>>
       ELSE /\ cmpPc' = "normalizing"
            /\ normPc' = "ready"
            /\ response' = callOutcome["c1"].value
            /\ UNCHANGED <<cmpOutcome, normBy, normOutcome, consoleErrors, jsonString>>
    /\ UNCHANGED <<cmpEntry, cmpEvent, cmpPapers, providerRequests, retryVars>>

\* processApiResponse has returned or thrown: the service reshapes the data,
\* the handler writes it to the body; an error leaves the service, and is
\* caught by the handler
CompareFinish ==
    /\ cmpPc = "normalizing"
    /\ normPc = "done"
    /\ cmpPc' = "done"
    /\ IF cmpEntry = "service"
       THEN /\ cmpOutcome' =
                   IF normOutcome.kind = "threw" THEN normOutcome
                   ELSE IF CanReshape(normOutcome.value)
                   THEN Returned(Reshaped(normOutcome.value))
                   ELSE Threw(TypeError)
            /\ UNCHANGED consoleErrors
       ELSE IF normOutcome.kind = "threw"
       THEN HandlerCaught(normOutcome.error)
       ELSE /\ cmpOutcome' = HttpResponse(200, JsonStringify(normOutcome.value))
            /\ UNCHANGED consoleErrors
    /\ UNCHANGED <<cmpEntry, cmpEvent, cmpPapers, providerRequests, retryVars>>
    /\ UNCHANGED <<normPc, normBy, response, normOutcome, jsonString>>

(***************************************************************************)
(* SpecCompare: one compare operation, entered through the service or      *)
(* through the handler, with a provider that answers each request with a   *)
(* response or an error.                                                   *)
(***************************************************************************)
\* the provider's answers to a compare prompt
CompareResponses ==
    {[text |-> TextComparison, blockReason |-> << >>, finishReason |-> FinishStop],
     [text |-> TextObject, blockReason |-> << >>, finishReason |-> FinishStop],
     [text |-> TextPlain, blockReason |-> << >>, finishReason |-> FinishStop],
     [text |-> << >>, blockReason |-> ReasonSafety, finishReason |-> << >>]}
CompareErrorMessages == {Msg503, MsgBadRequest, MsgEmpty}

InitCompare ==
    /\ RetryIdle
    /\ NormIdle
    /\ UiIdle
    /\ ServiceIdle
    /\ cmpPc = "start"
    /\ cmpOutcome = NoOutcome
    /\ providerRequests = 0
    /\ \/ /\ cmpEntry = "service"
          /\ cmpEvent = NoEvent
          /\ cmpPapers \in PaperLists
       \/ /\ cmpEntry = "handler"
          /\ cmpEvent \in [httpMethod : HttpMethods, body : EventBodies]
          /\ cmpPapers = Undefined

NextCompare ==
    \/ comparePapers /\ UNCHANGED outsideCompare
    \/ comparePapersHandler /\ UNCHANGED outsideCompare
    \/ CompareInvoke /\ UNCHANGED outsideCompare
    \/ cmpPc = "awaiting" /\ Exhaust("c1") /\ UNCHANGED outsideRetry
    \/ \E r \in CompareResponses :
           cmpPc = "awaiting" /\ Resolve("c1", r) /\ UNCHANGED outsideRetry
    \/ \E m \in CompareErrorMessages :
           cmpPc = "awaiting" /\ Reject("c1", ProviderError(m)) /\ UNCHANGED outsideRetry
    \/ cmpPc = "awaiting" /\ Wake("c1") /\ UNCHANGED outsideRetry
    \/ CompareSettled /\ UNCHANGED outsideCompare
    \/ processApiResponse /\ UNCHANGED outsideNorm
    \/ CompareFinish /\ UNCHANGED outsideCompare

SpecCompare == InitCompare /\ [][NextCompare]_vars

(***************************************************************************)
(* Claims about the compare operation, checked under SpecCompare.          *)
(***************************************************************************)
\* the operation was given a list of 0 or 1 papers
FewerThanTwoPapers == cmpPapers.t = "arr" /\ Len(cmpPapers.items) < 2

\* C9: in every state of a compare operation that was given 0 or 1 papers, no
\* provider request has been issued, and an operation that has ended has ended
\* with the validation error.
C9_NoRequestBelowTwoPapers ==
    FewerThanTwoPapers
        => /\ providerRequests = 0
           /\ cmpPc = "done" => cmpOutcome = returnError(400, TwoPapersMessage)

\* comparePapers of the service, given one paper, has called the provider and
\* returned a comparison
C9_ServiceRequested ==
    /\ cmpEntry = "service"
    /\ Len(cmpPapers.items) = 1
    /\ providerRequests >= 1
    /\ cmpPc = "done"
    /\ cmpOutcome.kind = "returned"

(***************************************************************************)
(* The two App components: src/App.tsx ("root") and                        *)
(* src/netlify/functions/App.tsx ("functions").  An action is one event    *)
(* handler up to its first await, or the continuation that runs when an    *)
(* awaited promise settles; its guard is the condition under which the     *)
(* control that fires it is rendered and enabled.  The services awaited    *)
(* are promises that fulfil or reject.  src/App.tsx is followed in its     *)
(* search mode; handleFilesUpload and handleViewAbstract are not part of   *)
(* the model.                                                              *)
(***************************************************************************)
\* most searches, and most compare fan-outs, started in one behaviour
MaxSearches == 2
MaxCompares == 2
\* longest selectedPapers list of the functions App
MaxSelected == 2

AppRoot == "root"
AppFunctions == "functions"

\* the value null of a state field, and an error message held in error
NullValue == [isNull |-> TRUE]
Message(m) == [isNull |-> FALSE, message |-> m]

\* the queries typed or clicked: two topics and a blank one
Queries == {<<"q", "1">>, <<"q", "2">>, <<" ">>}
\* the paper lists a search returns, and the suggestions that come with them
SearchResultLists == {<< >>, <<"p1", "p2">>, <<"p2", "p3">>}
SuggestionLists == {<< >>, <<<<"q", "2">>>>}
\* the messages of the errors searchPapers rejects with
SearchErrorMessages == {"The AI service is unavailable."}

\* the result state fields of each App, one request of the fan-out for each
ResultFields(app) ==
    IF app = AppRoot THEN {"comparisonResult", "knowledgeGraph"}
    ELSE {"comparisonData", "graphData", "detailedReport", "keyInsights", "researchGaps"}

\* what the request for a field resolves with
ResultOf(field, papers) == [isNull |-> FALSE, of |-> field, papers |-> papers]

NoFanout == [status |-> "none", reqs |-> << >>]
NoResults(app) == [f \in ResultFields(app) |-> NullValue]

Has(seq, x) == \E i \in 1..Len(seq) : seq[i] = x
Without(seq, x) == LET Keep(e) == e # x IN SelectSeq(seq, Keep)

\* uiSearches with search i moved to a stage
SearchAt(i, stage) == [uiSearches EXCEPT ![i].stage = stage]

(***************************************************************************)
(* src/App.tsx                                                             *)
(***************************************************************************)
\* the search view is rendered: the main view
SearchViewRendered == uiApp = AppRoot /\ uiView = "main"

\* handleSearch up to await searchPapers(query); the Enter key fires it
\* whether or not a search is running
handleSearch(query) ==
    /\ SearchViewRendered
    /\ Len(uiSearches) < MaxSearches
    /\ IF Trim(query) = << >>
       THEN UNCHANGED uiVars
       ELSE /\ uiSearching' = TRUE
            /\ uiError' = NullValue
            /\ uiPapers' = << >>
            /\ uiSuggestions' = << >>
            /\ uiQuery' = query
            /\ uiSearches' = Append(uiSearches, [stage |-> "papers"])
            /\ UNCHANGED <<uiApp, uiView, uiSelected, uiLoading, uiResults,
                           uiDashboard, uiActiveTab, uiFanout, uiCompares, uiAlerted>>

\* searchPapers fulfils: with papers, generateSuggestions is awaited next
searchPapersFulfils(i, results) ==
    /\ uiApp = AppRoot
    /\ uiSearches[i].stage = "papers"
    /\ uiPapers' = results
    /\ IF Len(results) > 0
       THEN uiSearches' = SearchAt(i, "suggestions") /\ UNCHANGED uiSearching
       ELSE uiSearches' = SearchAt(i, "done") /\ uiSearching' = FALSE
    /\ UNCHANGED <<uiApp, uiView, uiQuery, uiSelected, uiSuggestions, uiLoading,
                   uiError, uiResults, uiDashboard, uiActiveTab, uiFanout, uiCompares,
                   uiAlerted>>

\* searchPapers rejects: the outer catch and the finally
searchPapersRejects(i, m) ==
    /\ uiApp = AppRoot
    /\ uiSearches[i].stage = "papers"
    /\ uiError' = Message(m)
    /\ uiSearching' = FALSE
    /\ uiSearches' = SearchAt(i, "done")
    /\ UNCHANGED <<uiApp, uiView, uiQuery, uiPapers, uiSelected, uiSuggestions,
                   uiLoading, uiResults, uiDashboard, uiActiveTab, uiFanout, uiCompares,
                   uiAlerted>>

\* generateSuggestions settles: its list is shown, or its error is only logged
generateSuggestionsSettles(i, fulfilled, list) ==
    /\ uiApp = AppRoot
    /\ uiSearches[i].stage = "suggestions"
    /\ uiSuggestions' = IF fulfilled THEN list ELSE uiSuggestions
    /\ uiSearching' = FALSE
    /\ uiSearches' = SearchAt(i, "done")
    /\ UNCHANGED <<uiApp, uiView, uiQuery, uiPapers, uiSelected, uiLoading,
                   uiError, uiResults, uiDashboard, uiActiveTab, uiFanout, uiCompares,
                   uiAlerted>>

\* togglePaperSelection, fired by the card of a displayed paper
togglePaperSelection(paperId) ==
    /\ SearchViewRendered
    /\ Has(uiPapers, paperId)
    /\ uiSelected' = IF paperId \in uiSelected THEN uiSelected \ {paperId}
                     ELSE uiSelected \cup {paperId}
    /\ UNCHANGED <<uiApp, uiView, uiQuery, uiPapers, uiSuggestions, uiSearching,
                   uiLoading, uiError, uiResults, uiDashboard, uiActiveTab, uiSearches,
                   uiFanout, uiCompares, uiAlerted>>

\* papers.filter(p => selectedPapers.has(p.id))
papersForComparison ==
    LET Selected(paperId) == paperId \in uiSelected IN SelectSeq(uiPapers, Selected)

\* the fan-out a compare action issues: one pending request for each field
NewFanout(app) == [status |-> "pending", reqs |-> [f \in ResultFields(app) |-> "pending"]]

\* handleStartComparison up to await Promise.all([...]); the Compare button is
\* rendered with a selection and enabled with two selected papers while
\* nothing is processing
handleStartComparison ==
    /\ SearchViewRendered
    /\ Cardinality(uiSelected) >= 2
    /\ ~uiLoading
    /\ uiCompares < MaxCompares
    /\ IF Len(papersForComparison) < 2
       THEN /\ uiAlerted' = TRUE
            /\ UNCHANGED <<uiLoading, uiError, uiResults, uiDashboard, uiFanout, uiCompares>>
       ELSE /\ uiLoading' = TRUE
            /\ uiError' = NullValue
            /\ uiResults' = NoResults(AppRoot)
            /\ uiDashboard' = papersForComparison
            /\ uiFanout' = NewFanout(AppRoot)
            /\ uiCompares' = uiCompares + 1
            /\ UNCHANGED uiAlerted
    /\ UNCHANGED <<uiApp, uiView, uiQuery, uiPapers, uiSelected, uiSuggestions,
                   uiSearching, uiActiveTab, uiSearches>>

\* resetViews, the onBack of the comparison dashboard
resetViews ==
    /\ uiApp = AppRoot
    /\ uiView = "comparison"
    /\ uiView' = "main"
    /\ uiResults' = NoResults(AppRoot)
    /\ uiSelected' = {}
    /\ uiDashboard' = << >>
    /\ UNCHANGED <<uiApp, uiQuery, uiPapers, uiSuggestions, uiSearching, uiLoading,
                   uiError, uiActiveTab, uiSearches, uiFanout, uiCompares, uiAlerted>>

(***************************************************************************)
(* src/netlify/functions/App.tsx.  While isLoading holds only the loader   *)
(* is rendered, and while error is set only the error box is: no control   *)
(* can be used in either state.                                            *)
(***************************************************************************)
\* the content of a view is rendered
ViewRendered(view) ==
    uiApp = AppFunctions /\ ~uiLoading /\ uiError.isNull /\ uiView = view

\* handleSearch up to await searchForPapers(query), fired by the search box
\* of the search and results views or by a suggested topic
handleSearchFunctions(query) ==
    /\ ViewRendered("search") \/ ViewRendered("results")
    /\ Len(uiSearches) < MaxSearches
    /\ IF Trim(query) = << >>
       THEN UNCHANGED uiVars
       ELSE /\ uiLoading' = TRUE
            /\ uiError' = NullValue
            /\ uiQuery' = query
            /\ uiSelected' = << >>
            /\ uiPapers' = << >>
            /\ uiSuggestions' = << >>
            /\ uiView' = "search"
            /\ uiSearches' = Append(uiSearches, [stage |-> "papers"])
            /\ UNCHANGED <<uiApp, uiSearching, uiResults, uiDashboard, uiActiveTab,
                           uiFanout, uiCompares, uiAlerted>>

\* searchForPapers fulfils
searchForPapersFulfils(i, results, topics) ==
    /\ uiApp = AppFunctions
    /\ uiSearches[i].stage = "papers"
    /\ uiPapers' = results
    /\ uiSuggestions' = topics
    /\ uiView' = "results"
    /\ uiLoading' = FALSE
    /\ uiSearches' = SearchAt(i, "done")
    /\ UNCHANGED <<uiApp, uiQuery, uiSelected, uiSearching, uiError, uiResults,
                   uiDashboard, uiActiveTab, uiFanout, uiCompares, uiAlerted>>

\* searchForPapers rejects
searchForPapersRejects(i) ==
    /\ uiApp = AppFunctions
    /\ uiSearches[i].stage = "papers"
    /\ uiError' = Message("Failed to fetch search results. Please try again.")
    /\ uiView' = "search"
    /\ uiLoading' = FALSE
    /\ uiSearches' = SearchAt(i, "done")
    /\ UNCHANGED <<uiApp, uiQuery, uiPapers, uiSelected, uiSuggestions, uiSearching,
                   uiResults, uiDashboard, uiActiveTab, uiFanout, uiCompares, uiAlerted>>

\* handleToggleSelection, fired by a paper of the results list
handleToggleSelection(paperId, isSelected) ==
    /\ ViewRendered("results")
    /\ Has(uiPapers, paperId)
    /\ isSelected => Len(uiSelected) < MaxSelected
    /\ uiSelected' = IF isSelected THEN Append(uiSelected, paperId)
                     ELSE Without(uiSelected, paperId)
    /\ UNCHANGED <<uiApp, uiView, uiQuery, uiPapers, uiSuggestions, uiSearching,
                   uiLoading, uiError, uiResults, uiDashboard, uiActiveTab, uiSearches,
                   uiFanout, uiCompares, uiAlerted>>

\* handleStartAnalysis up to await Promise.all([...]); the Compare Papers
\* button is rendered in the results view with two selected papers
handleStartAnalysis ==
    /\ ViewRendered("results")
    /\ Len(uiSelected) >= 2
    /\ uiCompares < MaxCompares
    /\ IF Len(uiSelected) < 2
       THEN /\ uiError' = Message("Please select at least two papers to compare.")
            /\ UNCHANGED <<uiLoading, uiResults, uiFanout, uiCompares>>
       ELSE /\ uiLoading' = TRUE
            /\ uiError' = NullValue
            /\ uiResults' = NoResults(AppFunctions)
            /\ uiFanout' = NewFanout(AppFunctions)
            /\ uiCompares' = uiCompares + 1
    /\ UNCHANGED <<uiApp, uiView, uiQuery, uiPapers, uiSelected, uiSuggestions,
                   uiSearching, uiDashboard, uiActiveTab, uiSearches, uiAlerted>>

\* handleBackToResults, fired in the analysis view
handleBackToResults ==
    /\ ViewRendered("analysis")
    /\ uiView' = "results"
    /\ uiResults' = NoResults(AppFunctions)
    /\ uiError' = NullValue
    /\ UNCHANGED <<uiApp, uiQuery, uiPapers, uiSelected, uiSuggestions, uiSearching,
                   uiLoading, uiDashboard, uiActiveTab, uiSearches, uiFanout, uiCompares,
                   uiAlerted>>

\* resetToSearch, fired in the analysis view
resetToSearch ==
    /\ ViewRendered("analysis")
    /\ uiView' = "search"
    /\ uiQuery' = << >>
    /\ uiPapers' = << >>
    /\ uiSelected' = << >>
    /\ uiResults' = NoResults(AppFunctions)
    /\ uiError' = NullValue
    /\ UNCHANGED <<uiApp, uiSuggestions, uiSearching, uiLoading, uiDashboard,
                   uiActiveTab, uiSearches, uiFanout, uiCompares, uiAlerted>>

\* setActiveTab, fired by the tabs of the analysis view
setActiveTab(tab) ==
    /\ ViewRendered("analysis")
    /\ uiActiveTab' = tab
    /\ UNCHANGED <<uiApp, uiView, uiQuery, uiPapers, uiSelected, uiSuggestions,
                   uiSearching, uiLoading, uiError, uiResults, uiDashboard, uiSearches,
                   uiFanout, uiCompares, uiAlerted>>

(***************************************************************************)
(* The compare fan-out of both Apps: Promise.all over the requests.        *)
(***************************************************************************)
\* Promise.all fulfils once one request has fulfilled
JoinFulfilsOnAny(reqs) == \E f \in DOMAIN reqs : reqs[f] = "ok"

\* Promise.all fulfils as long as no request has rejected
JoinFulfilsWhileNoneFailed(reqs) == \A f \in DOMAIN reqs : reqs[f] # "failed"

\* Promise.all fulfils once every request has fulfilled
JoinFulfils(reqs) == \A f \in DOMAIN reqs : reqs[f] = "ok"

\* the papers the requests of the fan-out were issued for
ComparedPapers == IF uiApp = AppRoot THEN uiDashboard ELSE uiSelected

\* a request fulfils; when it is the one that fulfils the join, the rest of
\* the try block and the finally run: every field is set and the view switches
RequestFulfils(field) ==
    /\ uiFanout.reqs[field] = "pending"
    /\ LET reqs == [uiFanout.reqs EXCEPT ![field] = "ok"]
       IN  IF uiFanout.status = "pending" /\ JoinFulfils(reqs)
           THEN /\ uiFanout' = [status |-> "fulfilled", reqs |-> reqs]
                /\ uiResults' = [f \in ResultFields(uiApp) |-> ResultOf(f, ComparedPapers)]
                /\ uiView' = IF uiApp = AppRoot THEN "comparison" ELSE "analysis"
                /\ uiActiveTab' = IF uiApp = AppRoot THEN uiActiveTab ELSE "comparison"
                /\ uiLoading' = FALSE
           ELSE /\ uiFanout' = [uiFanout EXCEPT !.reqs = reqs]
                /\ UNCHANGED <<uiResults, uiView, uiActiveTab, uiLoading>>
    /\ UNCHANGED <<uiApp, uiQuery, uiPapers, uiSelected, uiSuggestions, uiSearching,
                   uiError, uiDashboard, uiSearches, uiCompares, uiAlerted>>

\* RequestRejects without the finally block: the loading flag is left as it is
RequestRejectsWithoutFinally(field) ==
    /\ uiFanout.reqs[field] = "pending"
    /\ IF uiFanout.status = "pending"
       THEN /\ uiFanout' = [status |-> "rejected",
                            reqs |-> [uiFanout.reqs EXCEPT ![field] = "failed"]]
            /\ uiError' = IF uiApp = AppRoot
                          THEN Message("Failed to generate comparison. Please try again.")
                          ELSE Message("An error occurred while analyzing the papers. Please check the console.")
       ELSE /\ uiFanout' = [uiFanout EXCEPT !.reqs[field] = "failed"]
            /\ UNCHANGED uiError
    /\ UNCHANGED <<uiApp, uiView, uiQuery, uiPapers, uiSelected, uiSuggestions,
                   uiSearching, uiResults, uiDashboard, uiActiveTab, uiSearches, uiCompares,
                   uiAlerted, uiLoading>>

\* a request rejects; the first rejection rejects the join, and the catch
\* block and the finally run; a later one has no effect
RequestRejects(field) ==
    /\ uiFanout.reqs[field] = "pending"
    /\ IF uiFanout.status = "pending"
       THEN /\ uiFanout' = [status |-> "rejected",
                            reqs |-> [uiFanout.reqs EXCEPT ![field] = "failed"]]
            /\ uiError' = IF uiApp = AppRoot
                          THEN Message("Failed to generate comparison. Please try again.")
                          ELSE Message("An error occurred while analyzing the papers. Please check the console.")
            /\ uiLoading' = FALSE
       ELSE /\ uiFanout' = [uiFanout EXCEPT !.reqs[field] = "failed"]
            /\ UNCHANGED <<uiError, uiLoading>>
    /\ UNCHANGED <<uiApp, uiView, uiQuery, uiPapers, uiSelected, uiSuggestions,
                   uiSearching, uiResults, uiDashboard, uiActiveTab, uiSearches, uiCompares,
                   uiAlerted>>

(***************************************************************************)
(* SpecUI: one of the two Apps, freshly mounted, under every sequence of   *)
(* user events and promise settlements.                                    *)
(***************************************************************************)
PaperIds == {"p1", "p2", "p3"}
Tabs == {"comparison", "graph", "report"}

InitUI ==
    /\ RetryIdle
    /\ NormIdle
    /\ CompareIdle
    /\ ServiceIdle
    /\ uiApp \in {AppRoot, AppFunctions}
    /\ uiView = IF uiApp = AppRoot THEN "main" ELSE "search"
    /\ uiQuery = << >>
    /\ uiPapers = << >>
    /\ uiSelected = IF uiApp = AppRoot THEN {} ELSE << >>
    /\ uiSuggestions = << >>
    /\ uiSearching = FALSE
    /\ uiLoading = FALSE
    /\ uiError = NullValue
    /\ uiResults = NoResults(uiApp)
    /\ uiDashboard = << >>
    /\ uiActiveTab = IF uiApp = AppRoot THEN "none" ELSE "comparison"
    /\ uiSearches = << >>
    /\ uiFanout = NoFanout
    /\ uiCompares = 0
    /\ uiAlerted = FALSE

NextUI ==
    \/ \E q \in Queries : handleSearch(q) /\ UNCHANGED outsideUi
    \/ \E i \in 1..Len(uiSearches), results \in SearchResultLists :
           searchPapersFulfils(i, results) /\ UNCHANGED outsideUi
    \/ \E i \in 1..Len(uiSearches), m \in SearchErrorMessages :
           searchPapersRejects(i, m) /\ UNCHANGED outsideUi
    \/ \E i \in 1..Len(uiSearches), fulfilled \in BOOLEAN, list \in SuggestionLists :
           generateSuggestionsSettles(i, fulfilled, list) /\ UNCHANGED outsideUi
    \/ \E paperId \in PaperIds : togglePaperSelection(paperId) /\ UNCHANGED outsideUi
    \/ handleStartComparison /\ UNCHANGED outsideUi
    \/ resetViews /\ UNCHANGED outsideUi
    \/ \E q \in Queries : handleSearchFunctions(q) /\ UNCHANGED outsideUi
    \/ \E i \in 1..Len(uiSearches), results \in SearchResultLists, topics \in SuggestionLists :
           searchForPapersFulfils(i, results, topics) /\ UNCHANGED outsideUi
    \/ \E i \in 1..Len(uiSearches) : searchForPapersRejects(i) /\ UNCHANGED outsideUi
    \/ \E paperId \in PaperIds, isSelected \in BOOLEAN :
           handleToggleSelection(paperId, isSelected) /\ UNCHANGED outsideUi
    \/ handleStartAnalysis /\ UNCHANGED outsideUi
    \/ handleBackToResults /\ UNCHANGED outsideUi
    \/ resetToSearch /\ UNCHANGED outsideUi
    \/ \E tab \in Tabs : setActiveTab(tab) /\ UNCHANGED outsideUi
    \/ \E field \in DOMAIN uiFanout.reqs : RequestFulfils(field) /\ UNCHANGED outsideUi
    \/ \E field \in DOMAIN uiFanout.reqs : RequestRejects(field) /\ UNCHANGED outsideUi

SpecUI == InitUI /\ [][NextUI]_vars

(***************************************************************************)
(* Claims about the compare fan-out, checked under SpecUI.                 *)
(***************************************************************************)
\* a request of the latest fan-out has failed
SomeRequestFailed == \E f \in DOMAIN uiFanout.reqs : uiFanout.reqs[f] = "failed"

\* no result state field is populated
NoFieldPopulated(results) == \A f \in DOMAIN results : results[f].isNull

\* the step in which the join of the fan-out fails
JoinFailsStep == uiFanout.status = "pending" /\ uiFanout'.status = "rejected"

\* C10: the compare fan-out is an all-or-nothing join.  Whenever a request of
\* the latest fan-out has failed, no result state field is populated and the
\* view is not the comparison or analysis view, whatever the other requests
\* did; and the step in which the join fails sets the error, leaves the view
\* where it was and populates no field.
C10_AllOrNothingJoin ==
    /\ [](SomeRequestFailed
            => /\ NoFieldPopulated(uiResults)
               /\ uiView \notin {"comparison", "analysis"})
    /\ [][JoinFailsStep
            => /\ ~uiError'.isNull
               /\ uiView' = uiView
               /\ NoFieldPopulated(uiResults')]_vars

\* in the functions App four requests have succeeded and one has failed, and
\* the compare action has been reported as failed
C10_Witness ==
    /\ uiApp = AppFunctions
    /\ uiFanout.status = "rejected"
    /\ Cardinality({f \in DOMAIN uiFanout.reqs : uiFanout.reqs[f] = "ok"}) = 4
    /\ SomeRequestFailed
    /\ ~uiError.isNull
    /\ ~uiLoading
    /\ uiView = "results"
    /\ NoFieldPopulated(uiResults)

(***************************************************************************)
(* The reshape of comparePapers (src/services/geminiService.ts and the     *)
(* fetch client of src/unnamed/part_015), applied to the payloads of the   *)
(* wire format: aspects, each with a list of per-paper entries.            *)
(***************************************************************************)
\* most entries of an aspect's list
MaxEntries == 2

\* the aspects the prompt asks for, shortened to two of them
AspectNames == <<<<"M">>, <<"L">>>>

NameOverallSynthesis ==
    <<"o", "v", "e", "r", "a", "l", "l", "S", "y", "n", "t", "h", "e", "s", "i", "s">>

\* the paper identifiers of the entries: a name, and one that is an array index
WirePaperIds == {<<"p", "1">>, <<"2">>}
\* what the provider extracted for an entry
WireValues == {<<"v">>, <<"w">>}

\* an entry of an aspect's list
WireEntry(paperId, value) ==
    Obj(<<[name |-> NamePaperId, value |-> Str(paperId)],
          [name |-> NameValue, value |-> Str(value)],
          [name |-> NameConfidenceScore, value |-> Num(IF value = <<"v">> THEN 1 ELSE 0)],
          [name |-> NameSourceSentence, value |-> Str(<<"s">> \o value)]>>)

WireEntries == {WireEntry(paperId, value) : paperId \in WirePaperIds, value \in WireValues}

\* the lists of an aspect: a paper may be absent, and may come twice
WireLists == UNION {[1..n -> WireEntries] : n \in 0..MaxEntries}

WireAspect(aspect, list) ==
    Obj(<<[name |-> NameAspect, value |-> Str(aspect)],
          [name |-> NamePapers, value |-> Arr(list)]>>)

\* the payloads processApiResponse hands to the reshape: one list for each aspect
WirePayloads ==
    {Obj(<<[name |-> NameComparison,
            value |-> Arr([i \in 1..Len(AspectNames) |-> WireAspect(AspectNames[i], lists[i])])],
           [name |-> NameOverallSynthesis, value |-> Str(<<"o">>)]>>) :
        lists \in [1..Len(AspectNames) -> WireLists]}

\* a payload without a comparison
PayloadNoComparison == Obj(<<[name |-> NameOverallSynthesis, value |-> Str(<<"o">>)]>>)

\* comparePapers from rawResult on: the transformation and the return
reshapeComparison ==
    /\ svcOp = "reshape"
    /\ svcPc = "ready"
    /\ svcPc' = "done"
    /\ svcOutcome' = IF CanReshape(svcReply) THEN Returned(Reshaped(svcReply))
                     ELSE Threw(TypeError)
    /\ UNCHANGED <<svcOp, svcArg, svcReply, svcRequests, svcConsole, svcNow, svcKey, aiKey>>

InitReshape ==
    /\ RetryIdle
    /\ NormIdle
    /\ CompareIdle
    /\ UiIdle
    /\ svcPc = "ready"
    /\ svcOp = "reshape"
    /\ svcArg = << >>
    /\ svcReply \in WirePayloads \cup {PayloadNoComparison}
    /\ svcOutcome = NoOutcome
    /\ svcRequests = 0
    /\ svcConsole = 0
    /\ svcNow = 0
    /\ svcKey = "set"
    /\ aiKey = "key"

NextReshape == reshapeComparison /\ UNCHANGED outsideService

SpecReshape == InitReshape /\ [][NextReshape]_vars

(***************************************************************************)
(* Claims about the reshape, checked under SpecReshape.                    *)
(***************************************************************************)
\* the reshape ran on a payload of the wire format
ReshapeDone == svcOp = "reshape" /\ svcPc = "done" /\ svcReply \in WirePayloads

\* the aspects handed in, and the aspects returned
AspectsIn == Field(svcReply, NameComparison).items
AspectsOut == Field(svcOutcome.value, NameComparison).items

\* the list of the i-th aspect handed in, and the mapping of the i-th returned
ListIn(i) == Field(AspectsIn[i], NamePapers).items
MappingOut(i) == Field(AspectsOut[i], NamePapers)

\* the paper identifiers of a list, and the keys of a mapping
EntryIds(list) == {Field(list[j], NamePaperId).chars : j \in 1..Len(list)}
Keys(mapping) == {mapping.fields[k].name : k \in 1..Len(mapping.fields)}

\* a point of the mapping holds exactly the three fields of an entry
SamePoint(point, entry) ==
    /\ point.t = "obj"
    /\ Len(point.fields) = 3
    /\ Field(point, NameValue) = Field(entry, NameValue)
    /\ Field(point, NameConfidenceScore) = Field(entry, NameConfidenceScore)
    /\ Field(point, NameSourceSentence) = Field(entry, NameSourceSentence)

\* the mapping of each aspect has one key for each paper of its list, and
\* no other key
OneKeyPerPaper ==
    /\ svcOutcome.kind = "returned"
    /\ Len(AspectsOut) = Len(AspectsIn)
    /\ \A i \in 1..Len(AspectsIn) :
           /\ Field(AspectsOut[i], NameAspect) = Field(AspectsIn[i], NameAspect)
           /\ MappingOut(i).t = "obj"
           /\ Keys(MappingOut(i)) = EntryIds(ListIn(i))
           /\ Len(MappingOut(i).fields) = Cardinality(EntryIds(ListIn(i)))

\* the last entry of a list for a paper
LastEntryOf(list, paperId) ==
    list[SetMax({j \in 1..Len(list) : Field(list[j], NamePaperId).chars = paperId})]

\* C11 as stated: after the reshape of a payload of the wire format, the
\* mapping of each aspect has exactly one key for each paper of the aspect's
\* list and no other key, and every entry of the list is found under its
\* paper with the same value, confidenceScore and sourceSentence.
C11_EveryEntryKept ==
    ReshapeDone =>
        /\ OneKeyPerPaper
        /\ \A i \in 1..Len(AspectsIn) : \A j \in 1..Len(ListIn(i)) :
               SamePoint(Field(MappingOut(i), Field(ListIn(i)[j], NamePaperId).chars),
                         ListIn(i)[j])

\* C11, amended: after the reshape of a payload of the wire format, the
\* mapping of each aspect has exactly one key for each paper of the aspect's
\* list and no other key, and the point under a paper holds the value,
\* confidenceScore and sourceSentence of the last entry of the list for that
\* paper.
C11_LastEntryKept ==
    ReshapeDone =>
        /\ OneKeyPerPaper
        /\ \A i \in 1..Len(AspectsIn) : \A paperId \in EntryIds(ListIn(i)) :
               SamePoint(Field(MappingOut(i), paperId), LastEntryOf(ListIn(i), paperId))

\* two aspects were reshaped: the first names one paper twice, with different
\* values, and the second names only the other paper
C11_Witness ==
    /\ ReshapeDone
    /\ svcOutcome.kind = "returned"
    /\ Len(AspectsIn) = 2
    /\ Len(ListIn(1)) = 2
    /\ Cardinality(EntryIds(ListIn(1))) = 1
    /\ ListIn(1)[1] # ListIn(1)[2]
    /\ Len(ListIn(2)) = 1
    /\ EntryIds(ListIn(2)) \cap EntryIds(ListIn(1)) = {}
    /\ Keys(MappingOut(2)) = EntryIds(ListIn(2))

(***************************************************************************)
(* The other operations of the service (src/services/geminiService.ts) and *)
(* of the fetch client (src/unnamed/part_015).  An operation of the        *)
(* service calls the provider through callApiWithRetry and hands the       *)
(* response to processApiResponse; an operation of the client posts to an  *)
(* endpoint and hands the answer to handleNetlifyResponse.                 *)
(***************************************************************************)
OverloadedClientMessage ==
    <<"T", "h", "e", " ", "A", "I", " ", "s", "e", "r", "v", "i", "c", "e", " ", "i", "s", " ",
      "t", "e", "m", "p", "o", "r", "a", "r", "i", "l", "y", " ", "o", "v", "e", "r", "l", "o",
      "a", "d", "e", "d", " ", "o", "r", " ", "u", "n", "a", "v", "a", "i", "l", "a", "b", "l",
      "e", ".", " ", "P", "l", "e", "a", "s", "e", " ", "t", "r", "y", " ", "a", "g", "a", "i",
      "n", " ", "i", "n", " ", "a", " ", "f", "e", "w", " ", "m", "o", "m", "e", "n", "t", "s",
      ".">>
RequestFailedPrefix ==
    <<"R", "e", "q", "u", "e", "s", "t", " ", "f", "a", "i", "l", "e", "d", ":", " ">>
UnknownServerlessMessage ==
    <<"A", "n", " ", "u", "n", "k", "n", "o", "w", "n", " ", "s", "e", "r", "v", "e", "r", "l",
      "e", "s", "s", " ", "e", "r", "r", "o", "r", " ", "o", "c", "c", "u", "r", "r", "e", "d",
      ".">>
FailedToFetchMessage ==
    <<"F", "a", "i", "l", "e", "d", " ", "t", "o", " ", "f", "e", "t", "c", "h">>
NameDetails ==
    <<"d", "e", "t", "a", "i", "l", "s">>
TextTopics ==
    <<"[", "\"", "a", "\"", ",", "\"", "b", "\"", "]">>

\* the variables an operation of the service leaves alone
outsideOperation == <<compareVars, uiVars>>

\* the truthiness of a value
TruthyValue(v) ==
    CASE v.t = "undefined" -> FALSE
      [] v.t = "lit" -> v.name = "true"
      [] v.t = "str" -> v.chars # << >>
      [] v.t = "num" -> IF "int" \in DOMAIN v THEN v.int # 0 ELSE TRUE
      [] OTHER -> TRUE

\* the answers of an endpoint: the fetch rejects, or a response arrives with
\* a status and a body that response.json() parses or rejects
NetworkFailure == [kind |-> "rejected"]
EndpointResponse(status, data) == [kind |-> "response", status |-> status, json |-> TRUE, data |-> data]
EndpointNotJson(status) == [kind |-> "response", status |-> status, json |-> FALSE, data |-> Undefined]

FetchError == [origin |-> "fetch", message |-> FailedToFetchMessage]
ClientError(m) == [origin |-> "handleNetlifyResponse", message |-> m]

\* response.ok
ResponseOk(status) == status >= 200 /\ status <= 299

\* data.details || data.error || "An unknown serverless error occurred."
ErrorDetails(data) ==
    IF TruthyValue(Field(data, NameDetails)) THEN Field(data, NameDetails)
    ELSE IF TruthyValue(Field(data, NameError)) THEN Field(data, NameError)
    ELSE Str(UnknownServerlessMessage)

\* handleNetlifyResponse: what it returns or throws, and whether it logs
handleNetlifyResponse(reply) ==
    IF ~reply.json
    THEN [outcome |-> Threw(SyntaxError), logged |-> 0]
    ELSE IF ResponseOk(reply.status)
    THEN [outcome |-> Returned(reply.data), logged |-> 0]
    ELSE IF IsNull(reply.data)
    THEN [outcome |-> Threw(TypeError), logged |-> 0]
    ELSE IF reply.status = 503 \/ reply.status = 429
    THEN [outcome |-> Threw(ClientError(OverloadedClientMessage)), logged |-> 1]
    ELSE [outcome |-> Threw(ClientError(RequestFailedPrefix \o PropertyKey(ErrorDetails(reply.data)))),
          logged |-> 1]

\* results.length === 0
NoResultsGiven == Len(svcArg.results.items) = 0

\* suggestBroaderTopics without its first line: the provider is always called
suggestBroaderTopicsAlwaysCalls ==
    /\ svcOp = "suggestBroaderTopics"
    /\ svcPc = "ready"
    /\ svcPc' = "awaiting"
    /\ CallApiWithRetry("c1")
    /\ UNCHANGED <<svcOp, svcArg, svcReply, svcOutcome, svcRequests, svcConsole, svcNow, svcKey, aiKey,
                   normVars>>

\* suggestBroaderTopics of the service, up to its await
suggestBroaderTopics ==
    /\ svcOp = "suggestBroaderTopics"
    /\ svcPc = "ready"
    /\ IF NoResultsGiven
       THEN /\ svcPc' = "done"
            /\ svcOutcome' = Returned(Arr(<< >>))
            /\ UNCHANGED retryVars
       ELSE /\ svcPc' = "awaiting"
            /\ CallApiWithRetry("c1")
            /\ UNCHANGED svcOutcome
    /\ UNCHANGED <<svcOp, svcArg, svcReply, svcRequests, svcConsole, svcNow, svcKey, aiKey, normVars>>

\* suggestBroaderTopics of the fetch client, up to its await: fetch is called
suggestBroaderTopicsClient ==
    /\ svcOp = "suggestBroaderTopicsClient"
    /\ svcPc = "ready"
    /\ IF NoResultsGiven
       THEN /\ svcPc' = "done"
            /\ svcOutcome' = Returned(Arr(<< >>))
            /\ UNCHANGED svcRequests
       ELSE /\ svcPc' = "fetching"
            /\ svcRequests' = svcRequests + 1
            /\ UNCHANGED svcOutcome
    /\ UNCHANGED <<svcOp, svcArg, svcReply, svcConsole, svcNow, svcKey, aiKey, retryVars, normVars>>

\* one attempt of the wrapped operation: ai.models.generateContent is called
ServiceInvoke ==
    /\ svcPc = "awaiting"
    /\ Invoke("c1")
    /\ svcRequests' = svcRequests + 1
    /\ UNCHANGED <<svcPc, svcOp, svcArg, svcReply, svcOutcome, svcConsole, svcNow, svcKey, aiKey,
                   normVars>>

\* the operations whose body is a try block that logs and rethrows
LogsAndRethrows(op) == op \in {"deepSemanticSearch"}

\* callApiWithRetry has settled: its error leaves the operation, or its
\* result is handed to processApiResponse
ServiceSettled ==
    /\ svcPc = "awaiting"
    /\ callPc["c1"] = "done"
    /\ IF callOutcome["c1"].kind = "threw"
       THEN /\ svcPc' = "done"
            /\ svcOutcome' = callOutcome["c1"]
            /\ svcConsole' = svcConsole + (IF LogsAndRethrows(svcOp) THEN 1 ELSE 0)
            /\ UNCHANGED <<svcReply, normVars>>
       ELSE /\ svcPc' = "normalizing"
            /\ svcReply' = callOutcome["c1"].value
            /\ normPc' = "ready"
            /\ response' = callOutcome["c1"].value
            /\ UNCHANGED <<svcOutcome, svcConsole, normBy, normOutcome, consoleErrors, jsonString>>
    /\ UNCHANGED <<svcOp, svcArg, svcRequests, svcNow, svcKey, aiKey, retryVars>>

\* most papers of a search response
MaxResults == 2

\* the readings of the clock while a list is mapped: Date.now() never goes back
ClockReadings(now) ==
    {[i \in 1..MaxResults |-> now + Cardinality({k \in 1..i : ticks[k] = 1})] :
        ticks \in [1..MaxResults -> {0, 1}]}

\* the own properties { ...paper } copies
SpreadFields(paper) ==
    CASE paper.t = "obj" -> paper.fields
      [] paper.t = "arr" ->
            [i \in 1..Len(paper.items) |-> [name |-> NatToChars(i - 1), value |-> paper.items[i]]]
      [] paper.t = "str" ->
            [i \in 1..Len(paper.chars) |-> [name |-> NatToChars(i - 1), value |-> Str(<<paper.chars[i]>>)]]
      [] OTHER -> << >>

\* the identifier without the position of the paper in the list
SynthesizedIdNoIndex(now, index) == Str(NatToChars(now))

\* `${Date.now()}-${index}`
SynthesizedId(now, index) == Str(NatToChars(now) \o <<"-">> \o NatToChars(index))

\* paper.id || `${Date.now()}-${index}`
IdOf(paper, now, index) ==
    IF TruthyValue(Field(paper, NameId)) THEN Field(paper, NameId)
    ELSE SynthesizedId(now, index)

\* papers.map((paper, index) => ({ ...paper, id: ... })), the clock read at times[i]
WithIds(papers, times) ==
    [i \in 1..Len(papers) |->
        Obj(PutField(SpreadFields(papers[i]), NameId, IdOf(papers[i], times[i], i - 1)))]

\* paper.id throws a TypeError for a paper that is null
MapThrows(papers) == \E i \in 1..Len(papers) : IsNull(papers[i]) \/ papers[i].t = "undefined"

\* deepSemanticSearch from the value its normalizer returned on: a value that
\* is no array is logged and answered with the empty list
SearchResult(outcome, times) ==
    IF outcome.kind = "threw" THEN [outcome |-> outcome, logged |-> 1]
    ELSE IF outcome.value.t # "arr" THEN [outcome |-> Returned(Arr(<< >>)), logged |-> 1]
    ELSE IF MapThrows(outcome.value.items) THEN [outcome |-> Threw(TypeError), logged |-> 1]
    ELSE [outcome |-> Returned(Arr(WithIds(outcome.value.items, times))), logged |-> 0]

\* every operation answering an error of its normalizer with the empty list
ServiceResultEmptyOnError(op, outcome, times) ==
    IF outcome.kind = "threw" THEN [outcome |-> Returned(Arr(<< >>)), logged |-> 1]
    ELSE IF op = "deepSemanticSearch" THEN SearchResult(outcome, times)
    ELSE [outcome |-> outcome, logged |-> 0]

\* what an operation of the service makes of the outcome of
\* processApiResponse, and how many times it logs
ServiceResult(op, outcome, times) ==
    IF op = "deepSemanticSearch" THEN SearchResult(outcome, times)
    ELSE [outcome |-> outcome, logged |-> 0]

\* processApiResponse has returned or thrown: the rest of the operation
ServiceFinish ==
    /\ svcPc = "normalizing"
    /\ normPc = "done"
    /\ svcPc' = "done"
    /\ \E times \in ClockReadings(svcNow) :
           /\ svcOutcome' = ServiceResult(svcOp, normOutcome, times).outcome
           /\ svcConsole' = svcConsole + ServiceResult(svcOp, normOutcome, times).logged
           /\ svcNow' = times[MaxResults]
    /\ UNCHANGED <<svcOp, svcArg, svcReply, svcRequests, svcKey, aiKey, retryVars, normVars>>

\* what an operation of the client makes of the outcome of
\* handleNetlifyResponse, and how many times it logs: its catch block logs
\* and rethrows
ClientResult(op, outcome, times) ==
    IF op = "deepSemanticSearchClient" THEN SearchResult(outcome, times)
    ELSE [outcome |-> outcome, logged |-> IF outcome.kind = "threw" THEN 1 ELSE 0]

\* the fetch of a client operation settles: the rest of the operation
EndpointSettles(reply) ==
    /\ svcPc = "fetching"
    /\ svcPc' = "done"
    /\ svcReply' = reply
    /\ IF reply.kind = "rejected"
       THEN /\ svcOutcome' = Threw(FetchError)
            /\ svcConsole' = svcConsole + 1
            /\ UNCHANGED svcNow
       ELSE \E times \in ClockReadings(svcNow) :
            /\ svcOutcome' = ClientResult(svcOp, handleNetlifyResponse(reply).outcome, times).outcome
            /\ svcConsole' = svcConsole + handleNetlifyResponse(reply).logged
                   + ClientResult(svcOp, handleNetlifyResponse(reply).outcome, times).logged
            /\ svcNow' = times[MaxResults]
    /\ UNCHANGED <<svcOp, svcArg, svcRequests, svcKey, aiKey, retryVars, normVars>>

\* the provider's errors in the service specifications
ServiceErrorMessages == {Msg503, MsgBadRequest}

(***************************************************************************)
(* SpecTopics: one call of suggestBroaderTopics, of the service or of the  *)
(* client.                                                                 *)
(***************************************************************************)
TopicsResponses ==
    {[text |-> TextTopics, blockReason |-> << >>, finishReason |-> FinishStop],
     [text |-> TextPlain, blockReason |-> << >>, finishReason |-> FinishStop],
     [text |-> << >>, blockReason |-> ReasonSafety, finishReason |-> << >>]}

TopicsReplies ==
    {NetworkFailure,
     EndpointResponse(200, Arr(<<Str(<<"a">>), Str(<<"b">>)>>)),
     EndpointResponse(200, Arr(<< >>)),
     EndpointResponse(500, Obj(<<[name |-> NameError, value |-> Str(<<"x">>)]>>)),
     EndpointResponse(503, Obj(<< >>)),
     EndpointResponse(500, Null),
     EndpointNotJson(502)}

InitTopics ==
    /\ RetryIdle
    /\ NormIdle
    /\ CompareIdle
    /\ UiIdle
    /\ svcPc = "ready"
    /\ svcOp \in {"suggestBroaderTopics", "suggestBroaderTopicsClient"}
    /\ svcArg \in [query : {<<"q">>}, results : PaperLists]
    /\ svcReply = << >>
    /\ svcOutcome = NoOutcome
    /\ svcRequests = 0
    /\ svcConsole = 0
    /\ svcNow = 0
    /\ svcKey = "set"
    /\ aiKey = "key"

NextTopics ==
    \/ suggestBroaderTopics /\ UNCHANGED outsideOperation
    \/ suggestBroaderTopicsClient /\ UNCHANGED outsideOperation
    \/ ServiceInvoke /\ UNCHANGED outsideOperation
    \/ svcPc = "awaiting" /\ Exhaust("c1") /\ UNCHANGED outsideRetry
    \/ \E r \in TopicsResponses :
           svcPc = "awaiting" /\ Resolve("c1", r) /\ UNCHANGED outsideRetry
    \/ \E m \in ServiceErrorMessages :
           svcPc = "awaiting" /\ Reject("c1", ProviderError(m)) /\ UNCHANGED outsideRetry
    \/ svcPc = "awaiting" /\ Wake("c1") /\ UNCHANGED outsideRetry
    \/ ServiceSettled /\ UNCHANGED outsideOperation
    \/ svcPc = "normalizing" /\ processApiResponse /\ UNCHANGED outsideNorm
    \/ ServiceFinish /\ UNCHANGED outsideOperation
    \/ \E reply \in TopicsReplies : EndpointSettles(reply) /\ UNCHANGED outsideOperation

SpecTopics == InitTopics /\ [][NextTopics]_vars

(***************************************************************************)
(* Claims about suggestBroaderTopics, checked under SpecTopics.            *)
(***************************************************************************)
\* C12: a call of suggestBroaderTopics with an empty paper list issues no
\* provider request and no endpoint request, and when it has ended it has
\* returned the empty list; in every step that issues a request the list
\* is non-empty.
C12_EmptyListShortCircuits ==
    /\ [](NoResultsGiven
            => /\ svcRequests = 0
               /\ svcPc \in {"ready", "done"}
               /\ svcPc = "done" => svcOutcome = Returned(Arr(<< >>)))
    /\ [][svcRequests' # svcRequests => ~NoResultsGiven]_vars

\* the service has returned the empty list for an empty paper list, without
\* a request
C12_Witness ==
    /\ svcOp = "suggestBroaderTopics"
    /\ NoResultsGiven
    /\ svcPc = "done"
    /\ svcOutcome = Returned(Arr(<< >>))
    /\ svcRequests = 0

(***************************************************************************)
(* SpecSearch: one call of deepSemanticSearch, of the service or of the    *)
(* client.  The provider answers with a list of papers, some of them       *)
(* without an identifier, or with something that is no list.               *)
(***************************************************************************)
\* the identifier a paper arrives with: none, the empty string, "1", and one
\* that has the form of a synthesized identifier
ArrivingIds == {Undefined, Str(<< >>), Str(<<"1">>), Str(<<"5", "-", "1">>)}

\* a paper as it arrives
ArrivingPaper(id) ==
    IF id.t = "undefined" THEN Obj(<<[name |-> NameTitle, value |-> Str(<<"T">>)]>>)
    ELSE Obj(<<[name |-> NameId, value |-> id], [name |-> NameTitle, value |-> Str(<<"T">>)]>>)

\* the lists of papers that arrive
ArrivingLists ==
    UNION {[1..n -> {ArrivingPaper(id) : id \in ArrivingIds}] : n \in 0..MaxResults}

\* the provider's responses to a search prompt
SearchResponses ==
    {[text |-> JsonStringify(Arr(list)), blockReason |-> << >>, finishReason |-> FinishStop] :
        list \in ArrivingLists}
    \cup {[text |-> TextObject, blockReason |-> << >>, finishReason |-> FinishStop],
          [text |-> TextPlain, blockReason |-> << >>, finishReason |-> FinishStop],
          [text |-> <<"[", "n", "u", "l", "l", "]">>, blockReason |-> << >>, finishReason |-> FinishStop],
          [text |-> << >>, blockReason |-> ReasonSafety, finishReason |-> << >>]}

\* the answers of the search endpoint
SearchReplies ==
    {EndpointResponse(200, Arr(list)) : list \in ArrivingLists}
    \cup {NetworkFailure,
          EndpointResponse(200, Obj(<<[name |-> NameError, value |-> Str(<<"x">>)]>>)),
          EndpointResponse(200, Arr(<<Null>>)),
          EndpointResponse(500, Obj(<<[name |-> NameError, value |-> Str(<<"x">>)]>>)),
          EndpointResponse(503, Obj(<< >>)),
          EndpointNotJson(502)}

\* deepSemanticSearch of the service, up to its await
deepSemanticSearch ==
    /\ svcOp = "deepSemanticSearch"
    /\ svcPc = "ready"
    /\ svcPc' = "awaiting"
    /\ CallApiWithRetry("c1")
    /\ UNCHANGED <<svcOp, svcArg, svcReply, svcOutcome, svcRequests, svcConsole, svcNow, svcKey, aiKey,
                   normVars>>

\* deepSemanticSearch of the fetch client, up to its await: fetch is called
deepSemanticSearchClient ==
    /\ svcOp = "deepSemanticSearchClient"
    /\ svcPc = "ready"
    /\ svcPc' = "fetching"
    /\ svcRequests' = svcRequests + 1
    /\ UNCHANGED <<svcOp, svcArg, svcReply, svcOutcome, svcConsole, svcNow, svcKey, aiKey, retryVars,
                   normVars>>

\* the reading of the clock when the operation is called
ClockStart == 5

InitSearch ==
    /\ RetryIdle
    /\ NormIdle
    /\ CompareIdle
    /\ UiIdle
    /\ svcPc = "ready"
    /\ svcOp \in {"deepSemanticSearch", "deepSemanticSearchClient"}
    /\ svcArg \in [query : {<<"q">>}, systematic : BOOLEAN]
    /\ svcReply = << >>
    /\ svcOutcome = NoOutcome
    /\ svcRequests = 0
    /\ svcConsole = 0
    /\ svcNow = ClockStart
    /\ svcKey = "set"
    /\ aiKey = "key"

NextSearch ==
    \/ deepSemanticSearch /\ UNCHANGED outsideOperation
    \/ deepSemanticSearchClient /\ UNCHANGED outsideOperation
    \/ ServiceInvoke /\ UNCHANGED outsideOperation
    \/ svcPc = "awaiting" /\ Exhaust("c1") /\ UNCHANGED outsideRetry
    \/ \E r \in SearchResponses :
           svcPc = "awaiting" /\ Resolve("c1", r) /\ UNCHANGED outsideRetry
    \/ \E m \in ServiceErrorMessages :
           svcPc = "awaiting" /\ Reject("c1", ProviderError(m)) /\ UNCHANGED outsideRetry
    \/ svcPc = "awaiting" /\ Wake("c1") /\ UNCHANGED outsideRetry
    \/ ServiceSettled /\ UNCHANGED outsideOperation
    \/ svcPc = "normalizing" /\ processApiResponse /\ UNCHANGED outsideNorm
    \/ ServiceFinish /\ UNCHANGED outsideOperation
    \/ \E reply \in SearchReplies : EndpointSettles(reply) /\ UNCHANGED outsideOperation

SpecSearch == InitSearch /\ [][NextSearch]_vars

(***************************************************************************)
(* Claims about deepSemanticSearch, checked under SpecSearch.              *)
(***************************************************************************)
\* the value the operation was handed by its normalizer
Arrived == IF svcOp = "deepSemanticSearch" THEN normOutcome.value ELSE svcReply.data

\* the operation has returned the papers of a list that arrived
SearchReturnedList ==
    /\ svcOp \in {"deepSemanticSearch", "deepSemanticSearchClient"}
    /\ svcPc = "done"
    /\ svcOutcome.kind = "returned"
    /\ IF svcOp = "deepSemanticSearch" THEN normOutcome.kind = "returned"
       ELSE svcReply.kind = "response" /\ svcReply.json
    /\ Arrived.t = "arr"

PapersIn == Arrived.items
PapersOut == svcOutcome.value.items

\* a paper arrived with an identifier
HasId(paper) == Field(paper, NameId).t = "str" /\ Field(paper, NameId).chars # << >>

\* the positions of the papers that arrived without an identifier
Synthesized == {i \in 1..Len(PapersIn) : ~HasId(PapersIn[i])}

\* an identifier made of a reading of the clock and a position
IsStampedWith(id, index) ==
    \E now \in ClockStart..(ClockStart + MaxResults) :
        id = Str(NatToChars(now) \o <<"-">> \o NatToChars(index))

\* every returned paper has a non-empty identifier; a paper that arrived with
\* one keeps it, and a paper that arrived without one has a timestamp joined
\* to its position in the list; the other fields are as they arrived
IdentifiersAssigned ==
    /\ Len(PapersOut) = Len(PapersIn)
    /\ \A i \in 1..Len(PapersIn) :
           /\ HasId(PapersOut[i])
           /\ Field(PapersOut[i], NameTitle) = Field(PapersIn[i], NameTitle)
           /\ HasId(PapersIn[i]) => Field(PapersOut[i], NameId) = Field(PapersIn[i], NameId)
           /\ ~HasId(PapersIn[i]) => IsStampedWith(Field(PapersOut[i], NameId), i - 1)

\* C13 as stated: in every list deepSemanticSearch returns, each paper has a
\* non-empty identifier, kept when it arrived with one and synthesized from a
\* timestamp and its position otherwise, and no two papers of the list have
\* the same identifier.
C13_AllIdentifiersDistinct ==
    SearchReturnedList =>
        /\ IdentifiersAssigned
        /\ \A i, j \in 1..Len(PapersOut) :
               i # j => Field(PapersOut[i], NameId) # Field(PapersOut[j], NameId)

\* C13, amended: in every list deepSemanticSearch returns, each paper has a
\* non-empty identifier, kept when it arrived with one and synthesized from a
\* timestamp and its position otherwise, and no two synthesized identifiers
\* of the list are the same.
C13_SynthesizedIdentifiersDistinct ==
    SearchReturnedList =>
        /\ IdentifiersAssigned
        /\ \A i, j \in Synthesized :
               i # j => Field(PapersOut[i], NameId) # Field(PapersOut[j], NameId)

\* the service has returned two papers that arrived without an identifier,
\* stamped with the same reading of the clock
C13_Witness ==
    /\ SearchReturnedList
    /\ svcOp = "deepSemanticSearch"
    /\ Len(PapersIn) = 2
    /\ Synthesized = {1, 2}
    /\ Field(PapersOut[1], NameId) = Str(<<"5", "-", "0">>)
    /\ Field(PapersOut[2], NameId) = Str(<<"5", "-", "1">>)

(***************************************************************************)
(* SpecGraph: one call of generateKnowledgeGraphData, of the service or    *)
(* of the client.  The provider answers with nodes and links; a link may   *)
(* name a node that is not among the nodes.                                *)
(***************************************************************************)
NameNodes == <<"n", "o", "d", "e", "s">>
NameLinks == <<"l", "i", "n", "k", "s">>
NameSource == <<"s", "o", "u", "r", "c", "e">>
NameTarget == <<"t", "a", "r", "g", "e", "t">>

\* the identifiers a response may use for nodes, and one more for links
NodeIds == {<<"a">>, <<"b">>}
LinkEnds == NodeIds \cup {<<"z">>}

\* Node Schema: { "id": string, ... }
GraphNode(id) == Obj(<<[name |-> NameId, value |-> Str(id)]>>)

\* Link Schema: { "source": string, "target": string, ... }
GraphLink(source, target) ==
    Obj(<<[name |-> NameSource, value |-> Str(source)],
          [name |-> NameTarget, value |-> Str(target)]>>)

\* a value of the response schema: nodes and links
GraphData(nodes, links) ==
    Obj(<<[name |-> NameNodes, value |-> Arr(nodes)], [name |-> NameLinks, value |-> Arr(links)]>>)

\* the graphs a response may hold
GraphValues ==
    {GraphData(nodes, links) :
        nodes \in {<< >>, <<GraphNode(<<"a">>)>>, <<GraphNode(<<"a">>), GraphNode(<<"b">>)>>},
        links \in {<< >>} \cup {<<GraphLink(s, t)>> : s \in LinkEnds, t \in LinkEnds}}

\* the provider's responses to a knowledge-graph prompt
GraphResponses ==
    {[text |-> JsonStringify(g), blockReason |-> << >>, finishReason |-> FinishStop] :
        g \in GraphValues}
    \cup {[text |-> TextPlain, blockReason |-> << >>, finishReason |-> FinishStop],
          [text |-> << >>, blockReason |-> ReasonSafety, finishReason |-> << >>]}

\* the answers of the knowledge-graph endpoint
GraphReplies ==
    {EndpointResponse(200, g) : g \in GraphValues}
    \cup {NetworkFailure, EndpointNotJson(502),
          EndpointResponse(500, Obj(<<[name |-> NameError, value |-> Str(<<"x">>)]>>))}

\* generateKnowledgeGraphData of the service, up to its await
generateKnowledgeGraphData ==
    /\ svcOp = "generateKnowledgeGraphData"
    /\ svcPc = "ready"
    /\ svcPc' = "awaiting"
    /\ CallApiWithRetry("c1")
    /\ UNCHANGED <<svcOp, svcArg, svcReply, svcOutcome, svcRequests, svcConsole, svcNow, svcKey, aiKey,
                   normVars>>

\* generateKnowledgeGraphData of the fetch client, up to its await
generateKnowledgeGraphDataClient ==
    /\ svcOp = "generateKnowledgeGraphDataClient"
    /\ svcPc = "ready"
    /\ svcPc' = "fetching"
    /\ svcRequests' = svcRequests + 1
    /\ UNCHANGED <<svcOp, svcArg, svcReply, svcOutcome, svcConsole, svcNow, svcKey, aiKey, retryVars,
                   normVars>>

InitGraph ==
    /\ RetryIdle
    /\ NormIdle
    /\ CompareIdle
    /\ UiIdle
    /\ svcPc = "ready"
    /\ svcOp \in {"generateKnowledgeGraphData", "generateKnowledgeGraphDataClient"}
    /\ svcArg \in [papers : {Arr(list) : list \in PaperLists}]
    /\ svcReply = << >>
    /\ svcOutcome = NoOutcome
    /\ svcRequests = 0
    /\ svcConsole = 0
    /\ svcNow = 0
    /\ svcKey = "set"
    /\ aiKey = "key"

NextGraph ==
    \/ generateKnowledgeGraphData /\ UNCHANGED outsideOperation
    \/ generateKnowledgeGraphDataClient /\ UNCHANGED outsideOperation
    \/ ServiceInvoke /\ UNCHANGED outsideOperation
    \/ svcPc = "awaiting" /\ Exhaust("c1") /\ UNCHANGED outsideRetry
    \/ \E r \in GraphResponses :
           svcPc = "awaiting" /\ Resolve("c1", r) /\ UNCHANGED outsideRetry
    \/ \E m \in ServiceErrorMessages :
           svcPc = "awaiting" /\ Reject("c1", ProviderError(m)) /\ UNCHANGED outsideRetry
    \/ svcPc = "awaiting" /\ Wake("c1") /\ UNCHANGED outsideRetry
    \/ ServiceSettled /\ UNCHANGED outsideOperation
    \/ svcPc = "normalizing" /\ processApiResponse /\ UNCHANGED outsideNorm
    \/ ServiceFinish /\ UNCHANGED outsideOperation
    \/ \E reply \in GraphReplies : EndpointSettles(reply) /\ UNCHANGED outsideOperation

SpecGraph == InitGraph /\ [][NextGraph]_vars

(***************************************************************************)
(* Claims about generateKnowledgeGraphData, checked under SpecGraph.       *)
(***************************************************************************)
\* the operation has returned a value with nodes and links
GraphReturned ==
    /\ svcOp \in {"generateKnowledgeGraphData", "generateKnowledgeGraphDataClient"}
    /\ svcPc = "done"
    /\ svcOutcome.kind = "returned"
    /\ svcOutcome.value.t = "obj"
    /\ Field(svcOutcome.value, NameNodes).t = "arr"
    /\ Field(svcOutcome.value, NameLinks).t = "arr"

\* the identifiers of the nodes of a graph
NodeIdsOf(graph) ==
    {Field(Field(graph, NameNodes).items[i], NameId) :
        i \in 1..Len(Field(graph, NameNodes).items)}

\* every link of the graph starts and ends at one of its nodes
LinksReferToNodes(graph) ==
    \A i \in 1..Len(Field(graph, NameLinks).items) :
        /\ Field(Field(graph, NameLinks).items[i], NameSource) \in NodeIdsOf(graph)
        /\ Field(Field(graph, NameLinks).items[i], NameTarget) \in NodeIdsOf(graph)

\* C14 as stated: in every value the knowledge-graph operation returns, each
\* link's source and target are the id of a node of that value (a response
\* that breaks this ends in an error of the normalizer, not in a returned
\* value).
C14_LinksReferToNodes == GraphReturned => LinksReferToNodes(svcOutcome.value)

\* the service has returned a graph with a link to a node the graph does not
\* hold, and nothing was logged
C14_DanglingLinkReturned ==
    /\ GraphReturned
    /\ svcOp = "generateKnowledgeGraphData"
    /\ ~LinksReferToNodes(svcOutcome.value)
    /\ normOutcome = Returned(svcOutcome.value)
    /\ svcConsole = 0

(***************************************************************************)
(* SpecExtract: one of the two normalizers applied to one text: a JSON     *)
(* value in a fenced block with prose around it, a JSON value amid prose,  *)
(* or a text that holds no fence and no span.                              *)
(***************************************************************************)
ProseSure ==
    <<"S", "u", "r", "e", ":", "\n">>
ProseCited ==
    <<"A", "s", " ", "i", "n", " ", "[", "1", "]", ":", "\n">>
ProseBraced ==
    <<"K", "e", "y", "s", " ", "i", "n", " ", "{", "b", "r", "a", "c", "e", "s", "}", ":", "\n">>
ProseDone ==
    <<"\n", "D", "o", "n", "e", ".">>
ProseNote ==
    <<"\n", "S", "e", "e", " ", "n", "o", "t", "e", " ", "[", "2", "]", ".">>
ProseSet ==
    <<"\n", "A", " ", "s", "e", "t", " ", "{", "x", "}", ".">>
TextSpacedObject ==
    <<"{", "\n", " ", "\"", "a", "\"", ":", " ", "1", "\n", "}">>
TextObjects ==
    <<"[", "{", "\"", "a", "\"", ":", "1", "}", ",", "{", "\"", "b", "\"", ":", "2", "}", "]">>
TextNumber ==
    <<"4", "2">>
TextTrue ==
    <<"t", "r", "u", "e">>
TextQuoted ==
    <<"\"", "h", "i", "\"">>
TextClosers ==
    <<"}", " ", "a", "n", "d", " ", "]">>
TextOpeners ==
    <<"a", " ", "{", " ", "o", "r", " ", "a", " ", "[">>
TextCrossed ==
    <<"}", " ", "t", "h", "e", "n", " ", "{">>
LeadHere ==
    <<"H", "e", "r", "e", ":", " ">>
LeadCited ==
    <<"A", "s", " ", "i", "n", " ", "[", "1", "]", ":", " ">>
LeadBraced ==
    <<"K", "e", "y", "s", " ", "i", "n", " ", "{", "b", "r", "a", "c", "e", "s", "}", ":", " ">>
TrailOk ==
    <<" ", "o", "k">>
TrailNote ==
    <<" ", "(", "n", "o", "t", "e", " ", "2", "]">>
TrailSet ==
    <<" ", "f", "o", "r", " ", "{", "x", "}">>

\* well-formed JSON texts, and those whose value is an object or an array
JsonTexts ==
    {TextObject, TextArray, TextNested, TextSpacedObject, TextObjects, TextNumber}
JsonRegions == JsonTexts \ {TextNumber}

\* the prose before and after a fenced block, each on lines of its own
ProseBefore == {<< >>, ProseSure, ProseCited, ProseBraced}
ProseAfter == {<< >>, ProseDone, ProseNote, ProseSet}

\* the prose before and after an unfenced JSON value
Leads == {<< >>, LeadHere, LeadCited, LeadBraced}
Trails == {<< >>, TrailOk, TrailNote, TrailSet}

\* a JSON text in a fenced block tagged json, between two pieces of prose
Fenced(before, inner, after) == before \o FenceOpen \o inner \o FenceClose \o after

\* a JSON text between two pieces of prose
Amid(lead, region, trail) == lead \o region \o trail

\* texts with no fenced block and no opening delimiter followed by its closer
SpanlessTexts ==
    {TextPlain, TextNumber, TextTrue, TextQuoted, TextClosers, TextOpeners, TextCrossed}

ExtractTexts ==
    {Fenced(b, j, a) : b \in ProseBefore, j \in JsonTexts, a \in ProseAfter}
    \cup {Amid(l, j, t) : l \in Leads, j \in JsonRegions, t \in Trails}
    \cup SpanlessTexts

InitExtract ==
    /\ RetryIdle
    /\ CompareIdle
    /\ UiIdle
    /\ ServiceIdle
    /\ normPc = "ready"
    /\ normBy = "none"
    /\ response \in [text : ExtractTexts, blockReason : {<< >>}, finishReason : {FinishStop}]
    /\ normOutcome = NoOutcome
    /\ consoleErrors = << >>
    /\ jsonString = << >>

NextExtract ==
    \/ processApiResponse /\ UNCHANGED outsideNorm
    \/ parseGeminiJson /\ UNCHANGED outsideNorm

SpecExtract == InitExtract /\ [][NextExtract]_vars

C16_UnfencedSpanParseable ==
    \A l \in Leads, j \in JsonRegions, t \in Trails :
        normPc = "done" /\ response.text = Amid(l, j, t) => JsonParse(jsonString).ok

\* processApiResponse has met an object after prose that holds braces: the
\* span starts at the brace of the prose and the response is reported malformed
C16_SpanStartsInProse ==
    /\ Normalized
    /\ response.text = Amid(LeadBraced, TextObject, << >>)
    /\ jsonString = SubSeq(response.text, 9, Len(response.text))
    /\ ~JsonParse(jsonString).ok
    /\ MalformedJSON(normOutcome)

\* the text holds no fenced block and a JSON object or array amid prose
Unfenced == \E l \in Leads, j \in JsonRegions, t \in Trails : response.text = Amid(l, j, t)

\* the positions of a character in a text
PositionsOf(text, ch) == {p \in 1..Len(text) : text[p] = ch}

\* a span from the first open to the last close exists in the text
SpanExists(text, open, close) ==
    /\ PositionsOf(text, open) # {}
    /\ PositionsOf(text, close) # {}
    /\ SetMax(PositionsOf(text, close)) > SetMin(PositionsOf(text, open))

\* the text from the first open to the last close
SpanOf(text, open, close) ==
    SubSeq(text, SetMin(PositionsOf(text, open)), SetMax(PositionsOf(text, close)))

\* the object span when there is one, the array span otherwise
ObjectPreferred(text) ==
    IF SpanExists(text, "{", "}") THEN SpanOf(text, "{", "}") ELSE SpanOf(text, "[", "]")

\* the openers of the text that a closer of their own kind follows
FollowedOpeners(text) ==
    {p \in 1..Len(text) :
        \/ text[p] = "{" /\ \E q \in PositionsOf(text, "}") : q > p
        \/ text[p] = "[" /\ \E q \in PositionsOf(text, "]") : q > p}

\* the span from the first such opener to the last closer of its kind
LeftmostSpan(text) ==
    LET p == SetMin(FollowedOpeners(text))
    IN  SubSeq(text, p, SetMax(PositionsOf(text, IF text[p] = "{" THEN "}" ELSE "]")))

\* C17 as stated: without a fence, the span either normalizer extracts runs
\* from the first opening delimiter to the last matching closing delimiter,
\* and it is the object span when the text holds both an object span and an
\* array span.
C17_ObjectSpanPreferred ==
    normPc = "done" /\ Unfenced => jsonString = ObjectPreferred(response.text)

\* C17, amended: without a fence, the span of extractJson starts at the first
\* opening delimiter of either kind that a closing delimiter of its own kind
\* follows and runs to the last closing delimiter of that kind; the span of
\* parseGeminiJson runs from the first brace to the last brace when the text
\* holds such a span, and from the first bracket to the last bracket otherwise.
C17_LeftmostSpanOrObject ==
    normPc = "done" /\ Unfenced =>
        IF normBy = "processApiResponse" THEN jsonString = LeftmostSpan(response.text)
        ELSE jsonString = ObjectPreferred(response.text)

\* extractJson has returned a whole array of objects that stands amid prose,
\* not the span between the first and the last brace within it
C17_Witness ==
    /\ Normalized
    /\ response.text = Amid(LeadHere, TextObjects, TrailOk)
    /\ jsonString = TextObjects
    /\ jsonString # ObjectPreferred(response.text)
    /\ normOutcome.kind = "returned"

\* C18 as stated: when the text holds no fence and no span, extractJson
\* returns the text unchanged, the parse fails, and the caller receives the
\* malformed-response error with the text attached: not a value, and not an
\* error that says the response was empty or that no JSON was found.
C18_SpanlessTextMalformed ==
    normPc = "done" /\ response.text \in SpanlessTexts
        => /\ normBy = "processApiResponse" => jsonString = response.text
           /\ normOutcome.kind = "threw"
           /\ normOutcome.error.message \in {MalformedMessage, MalformedDataMessage}
           /\ Includes(normOutcome.error.message, response.text)

\* parseGeminiJson has met a plain sentence: the error says that no JSON was
\* found, and the sentence is in the console only
C18_NoJsonFound ==
    /\ normPc = "done"
    /\ normBy = "parseGeminiJson"
    /\ response.text = TextPlain
    /\ normOutcome = Threw(GeminiJsonError(NoJsonMessage))
    /\ ~Includes(normOutcome.error.message, response.text)
    /\ consoleErrors = <<response.text>>

(***************************************************************************)
(* Claims about empty results, checked under SpecSearch.                   *)
(***************************************************************************)
\* the operation has returned the empty list
ReturnedEmpty == svcPc = "done" /\ svcOutcome = Returned(Arr(<< >>))

\* what reached the operation is the empty list
ArrivedEmpty ==
    IF svcOp = "deepSemanticSearch" THEN normOutcome = Returned(Arr(<< >>))
    ELSE svcReply = EndpointResponse(200, Arr(<< >>))

\* C19 as stated: a search returns the empty list without an error only when
\* the empty list is what the provider answered; a blocked, empty, non-array
\* or unparseable answer ends in an error.
C19_EmptyOnlyFromEmptyList == ReturnedEmpty => ArrivedEmpty

\* the service was answered with an object, and has returned the empty list
C19_NonArrayReturnedEmpty ==
    /\ svcOp = "deepSemanticSearch"
    /\ ReturnedEmpty
    /\ normOutcome.kind = "returned"
    /\ normOutcome.value.t = "obj"
    /\ svcConsole = 1

(***************************************************************************)
(* SpecStartup: a service module is loaded in an environment where the     *)
(* credential is set or not, and one of its operations is called: the      *)
(* service of src/services (deepSemanticSearch) or the service of the      *)
(* functions (searchForPapers).                                            *)
(***************************************************************************)
KeyNotSetMessage ==
    <<"V", "I", "T", "E", "_", "A", "P", "I", "_", "K", "E", "Y", " ", "e", "n", "v", "i", "r",
      "o", "n", "m", "e", "n", "t", " ", "v", "a", "r", "i", "a", "b", "l", "e", " ", "n", "o",
      "t", " ", "s", "e", "t">>

\* the module an operation belongs to
ModuleOf(op) == IF op = "searchForPapers" THEN "functions/services" ELSE "services"

\* src/services/geminiService.ts is evaluated: without the credential the
\* module throws, and none of its exports exists
loadService ==
    /\ svcPc = "unloaded"
    /\ ModuleOf(svcOp) = "services"
    /\ IF svcKey = "unset"
       THEN /\ svcPc' = "failed"
            /\ svcOutcome' = Threw([origin |-> "module", message |-> KeyNotSetMessage])
            /\ UNCHANGED aiKey
       ELSE /\ svcPc' = "ready"
            /\ aiKey' = "key"
            /\ UNCHANGED svcOutcome
    /\ UNCHANGED <<svcOp, svcArg, svcReply, svcRequests, svcConsole, svcNow, svcKey, retryVars,
                   normVars>>

\* src/netlify/functions/services/geminiService.ts is evaluated: without the
\* credential it warns and makes the client with 'MISSING_API_KEY'
loadFunctionsService ==
    /\ svcPc = "unloaded"
    /\ ModuleOf(svcOp) = "functions/services"
    /\ svcPc' = "ready"
    /\ aiKey' = IF svcKey = "unset" THEN "placeholder" ELSE "key"
    /\ UNCHANGED <<svcOp, svcArg, svcReply, svcOutcome, svcRequests, svcConsole, svcNow, svcKey,
                   retryVars, normVars>>

\* searchForPapers of the functions service, up to its await: the request
\* is made with the client of the module
searchForPapers ==
    /\ svcOp = "searchForPapers"
    /\ svcPc = "ready"
    /\ svcPc' = "calling"
    /\ svcRequests' = svcRequests + 1
    /\ UNCHANGED <<svcOp, svcArg, svcReply, svcOutcome, svcConsole, svcNow, svcKey, aiKey,
                   retryVars, normVars>>

\* generateContent resolves: response.text goes to parseGeminiJson
generateContentResolves(r) ==
    /\ svcPc = "calling"
    /\ svcPc' = "normalizing"
    /\ svcReply' = r
    /\ normPc' = "ready"
    /\ response' = r
    /\ UNCHANGED <<svcOp, svcArg, svcOutcome, svcRequests, svcConsole, svcNow, svcKey, aiKey,
                   retryVars, normBy, normOutcome, consoleErrors, jsonString>>

\* generateContent rejects: the error leaves searchForPapers
generateContentRejects(m) ==
    /\ svcPc = "calling"
    /\ svcPc' = "done"
    /\ svcOutcome' = Threw(ProviderError(m))
    /\ UNCHANGED <<svcOp, svcArg, svcReply, svcRequests, svcConsole, svcNow, svcKey, aiKey,
                   retryVars, normVars>>

\* the provider's responses to the prompt of searchForPapers
PaperSearchResponses ==
    {[text |-> t, blockReason |-> << >>, finishReason |-> FinishStop] :
        t \in {TextObject, TextPlain, TextTruncated}}

InitStartup ==
    /\ RetryIdle
    /\ NormIdle
    /\ CompareIdle
    /\ UiIdle
    /\ svcPc = "unloaded"
    /\ svcOp \in {"deepSemanticSearch", "searchForPapers"}
    /\ svcArg \in [query : {<<"q">>}, systematic : BOOLEAN]
    /\ svcReply = << >>
    /\ svcOutcome = NoOutcome
    /\ svcRequests = 0
    /\ svcConsole = 0
    /\ svcNow = ClockStart
    /\ svcKey \in {"set", "unset"}
    /\ aiKey = "none"

NextStartup ==
    \/ loadService /\ UNCHANGED outsideOperation
    \/ loadFunctionsService /\ UNCHANGED outsideOperation
    \/ deepSemanticSearch /\ UNCHANGED outsideOperation
    \/ ServiceInvoke /\ UNCHANGED outsideOperation
    \/ svcPc = "awaiting" /\ Exhaust("c1") /\ UNCHANGED outsideRetry
    \/ \E r \in SearchResponses :
           svcPc = "awaiting" /\ Resolve("c1", r) /\ UNCHANGED outsideRetry
    \/ \E m \in ServiceErrorMessages :
           svcPc = "awaiting" /\ Reject("c1", ProviderError(m)) /\ UNCHANGED outsideRetry
    \/ svcPc = "awaiting" /\ Wake("c1") /\ UNCHANGED outsideRetry
    \/ ServiceSettled /\ UNCHANGED outsideOperation
    \/ svcPc = "normalizing" /\ svcOp = "deepSemanticSearch" /\ processApiResponse
           /\ UNCHANGED outsideNorm
    \/ searchForPapers /\ UNCHANGED outsideOperation
    \/ \E r \in PaperSearchResponses : generateContentResolves(r) /\ UNCHANGED outsideOperation
    \/ \E m \in ServiceErrorMessages : generateContentRejects(m) /\ UNCHANGED outsideOperation
    \/ svcPc = "normalizing" /\ svcOp = "searchForPapers" /\ parseGeminiJson
           /\ UNCHANGED outsideNorm
    \/ ServiceFinish /\ UNCHANGED outsideOperation

SpecStartup == InitStartup /\ [][NextStartup]_vars

(***************************************************************************)
(* Claims about the credential, checked under SpecStartup.                 *)
(***************************************************************************)
\* C20 as stated: when the credential is not set, no operation is ever
\* called and no provider request is ever made: the module is not loaded, or
\* its load has failed.
C20_MissingCredentialIsFatal ==
    svcKey = "unset" => svcRequests = 0 /\ svcPc \in {"unloaded", "failed"}

\* without the credential, searchForPapers of the functions service has made
\* a provider request with the placeholder
C20_RequestWithPlaceholder ==
    /\ svcKey = "unset"
    /\ svcOp = "searchForPapers"
    /\ aiKey = "placeholder"
    /\ svcRequests = 1

(***************************************************************************)
(* Claims about the order of the attempts, checked under SpecRetry.        *)
(***************************************************************************)
\* the invocations of the wrapped operation that have not settled
Outstanding(c) == invoked[c] - Len(opLog[c])

\* C21: within one invocation of callApiWithRetry at most one invocation of
\* the wrapped operation is outstanding, and the wrapped operation is invoked
\* again only when every earlier invocation has failed and the timer of the
\* delay that followed each of them has fired.
C21_AttemptsSequential ==
    /\ [](\A c \in Calls : Outstanding(c) \in {0, 1})
    /\ [][\A c \in Calls :
             invoked'[c] # invoked[c]
                 => /\ Outstanding(c) = 0
                    /\ \A i \in 1..Len(opLog[c]) : opLog[c][i].kind = "threw"
                    /\ Len(delayLog[c]) = invoked[c]
                    /\ attempt[c] = invoked[c]
                    /\ callPc[c] = "loop"]_vars

\* the third invocation is outstanding, after two failures and two delays
C21_Witness ==
    /\ callPc["c1"] = "calling"
    /\ invoked["c1"] = 3
    /\ Len(opLog["c1"]) = 2
    /\ Len(delayLog["c1"]) = 2
    /\ attempt["c1"] = 2

(***************************************************************************)
(* SpecRetryPair: two invocations of callApiWithRetry in flight at once,   *)
(* each around an operation of its own, their steps interleaved freely.    *)
(***************************************************************************)
\* the arguments of the two invocations
PairMaxRetries == {1, 2, DefaultMaxRetries}
PairDelays == [c1 |-> 250, c2 |-> DefaultInitialDelay]
PairMessages == {Msg503, MsgOverloaded, MsgBadRequest}

InitRetryPair ==
    /\ callPc = [c \in Calls |-> "loop"]
    /\ maxRetries \in [Calls -> PairMaxRetries]
    /\ initialDelay = [c \in Calls |-> PairDelays[c]]
    /\ attempt = [c \in Calls |-> 0]
    /\ lastError = [c \in Calls |-> NoError]
    /\ callOutcome = [c \in Calls |-> NoOutcome]
    /\ invoked = [c \in Calls |-> 0]
    /\ opLog = [c \in Calls |-> << >>]
    /\ delayLog = [c \in Calls |-> << >>]
    /\ NormIdle
    /\ CompareIdle
    /\ UiIdle
    /\ ServiceIdle

NextRetryPair ==
    \E c \in Calls :
        \/ Invoke(c) /\ UNCHANGED outsideRetry
        \/ Exhaust(c) /\ UNCHANGED outsideRetry
        \/ Resolve(c, "resultA") /\ UNCHANGED outsideRetry
        \/ \E m \in PairMessages : Reject(c, ProviderError(m)) /\ UNCHANGED outsideRetry
        \/ Wake(c) /\ UNCHANGED outsideRetry

SpecRetryPair == InitRetryPair /\ [][NextRetryPair]_vars

(***************************************************************************)
(* Claims about concurrent invocations, checked under SpecRetryPair.       *)
(***************************************************************************)
\* the state of one invocation
StateOf(c) ==
    <<callPc[c], maxRetries[c], initialDelay[c], attempt[c], lastError[c], callOutcome[c],
      invoked[c], opLog[c], delayLog[c]>>

\* the failures of a log that match an overload marker
RECURSIVE TransientCount(_)
TransientCount(log) ==
    IF log = << >> THEN 0
    ELSE TransientCount(Tail(log)) + (IF TransientFailure(Head(log)) THEN 1 ELSE 0)

\* what an invocation makes of the outcomes of its own operation
OwnOutcome(c) ==
    IF opLog[c] # << >> /\ ~TransientFailure(opLog[c][Len(opLog[c])])
    THEN opLog[c][Len(opLog[c])]
    ELSE Threw(TerminalError)

\* C22: under every interleaving of two invocations of callApiWithRetry, a
\* step of one leaves the state of the other as it was, and the attempts,
\* the delays and the outcome of each are those its own operation's outcomes
\* and its own arguments give: at most maxRetries invocations, one delay of
\* initialDelay x 2^(i-1) after the i-th transient failure, and the last
\* outcome of its operation, or the terminal error, at the end.
C22_InvocationsIndependent ==
    /\ [](\A c \in Calls :
            /\ invoked[c] <= maxRetries[c]
            /\ attempt[c] \in {TransientCount(opLog[c]), TransientCount(opLog[c]) - 1}
            /\ DelaysOf(c) =
                   [i \in 1..TransientCount(opLog[c]) |-> initialDelay[c] * (2 ^ (i - 1))]
            /\ callPc[c] = "done" => callOutcome[c] = OwnOutcome(c))
    /\ [][\A c, d \in Calls :
             (c # d /\ StateOf(c)' # StateOf(c)) => StateOf(d)' = StateOf(d)]_vars

\* both invocations are done, one with a result after a transient failure
\* while the other has used up its three attempts
C22_Witness ==
    /\ callPc = [c \in Calls |-> "done"]
    /\ maxRetries = [c1 |-> 2, c2 |-> 3]
    /\ callOutcome["c1"] = Returned("resultA")
    /\ invoked["c1"] = 2
    /\ DelaysOf("c1") = <<250>>
    /\ callOutcome["c2"] = Threw(TerminalError)
    /\ invoked["c2"] = 3
    /\ DelaysOf("c2") = <<1000, 2000, 4000>>

(***************************************************************************)
(* Claims about the view and the loading flag, checked under SpecUI.       *)
(***************************************************************************)
\* a request of the latest fan-out is in flight
SomeRequestInFlight == \E f \in DOMAIN uiFanout.reqs : uiFanout.reqs[f] = "pending"

\* the views that show the results of a compare action
CompareViews == {"comparison", "analysis"}

\* C23: the view is the comparison or analysis view only while no request of
\* the compare action is in flight, and the step that switches to it is taken
\* when every request the action issued has settled.
C23_ViewAfterAllSettled ==
    /\ [](SomeRequestInFlight => uiView \notin CompareViews)
    /\ [][(uiView' \in CompareViews /\ uiView \notin CompareViews)
            => /\ DOMAIN uiFanout'.reqs = ResultFields(uiApp)
               /\ \A f \in DOMAIN uiFanout'.reqs : uiFanout'.reqs[f] = "ok"]_vars

\* the functions App has switched to the analysis view with its five
\* requests settled
C23_Witness ==
    /\ uiApp = AppFunctions
    /\ uiView = "analysis"
    /\ uiFanout.status = "fulfilled"
    /\ Cardinality({f \in DOMAIN uiFanout.reqs : uiFanout.reqs[f] = "ok"}) = 5
    /\ ~uiLoading

(***************************************************************************)
(* Claims about what is retried, checked under SpecSearch.                 *)
(***************************************************************************)
\* processApiResponse has rejected the response deepSemanticSearch received
NormalizerRejected ==
    /\ svcOp = "deepSemanticSearch"
    /\ normPc = "done"
    /\ normOutcome.kind = "threw"

\* C24 as stated: when the normalizer rejects the provider's response, the
\* provider has been called exactly once for the operation, and the error of
\* the normalizer is what the operation throws.
C24_RejectedAfterOneCall ==
    NormalizerRejected
        => /\ svcRequests = 1
           /\ svcPc = "done" => svcOutcome = normOutcome

\* C24, amended: when the normalizer rejects the provider's response, that
\* response is the one answer the provider gave, every call before it failed
\* with a transient overload error, no call follows it, and the error of the
\* normalizer is what the operation throws.
C24_RejectionNotRetried ==
    /\ [](NormalizerRejected
            => /\ svcRequests = Len(opLog["c1"])
               /\ opLog["c1"][svcRequests] = Returned(response)
               /\ TransientCount(opLog["c1"]) = svcRequests - 1
               /\ svcPc = "done" => svcOutcome = normOutcome)
    /\ [][NormalizerRejected => svcRequests' = svcRequests]_vars

\* a blocked response came after one overload error: two provider calls,
\* and the error of the normalizer thrown by the operation
C24_Witness ==
    /\ NormalizerRejected
    /\ svcPc = "done"
    /\ svcRequests = 2
    /\ TransientFailure(opLog["c1"][1])
    /\ response.blockReason = ReasonSafety
    /\ BlockedContent(svcOutcome, ReasonSafety)

(***************************************************************************)
(* Claims about overlapping searches, checked under SpecUI.                *)
(***************************************************************************)
\* the searches that have not run to their end
SearchesInFlight == {i \in 1..Len(uiSearches) : uiSearches[i].stage # "done"}

\* search i moves on in this step: an await of its handleSearch has settled
SearchMovesOn(i) ==
    /\ i \in 1..Len(uiSearches)
    /\ uiSearches'[i].stage # uiSearches[i].stage

\* C25 as stated: in src/App.tsx no search begins while an earlier one is
\* still awaiting, and the papers and the suggestions are written only by the
\* search submitted last, never by an older one that completes later.
C25_OnlyLatestSearchWrites ==
    /\ [](uiApp = AppRoot => Cardinality(SearchesInFlight) <= 1)
    /\ [][\A i \in 1..MaxSearches :
             (uiApp = AppRoot /\ SearchMovesOn(i)
                 /\ <<uiPapers, uiSuggestions>>' # <<uiPapers, uiSuggestions>>)
                 => i = Len(uiSearches)]_vars

\* in src/App.tsx the second search is still awaiting searchPapers, and the
\* papers shown are those the first search returned after the second began
C25_StaleResultsShown ==
    /\ uiApp = AppRoot
    /\ Len(uiSearches) = 2
    /\ uiSearches[1].stage = "done"
    /\ uiSearches[2].stage = "papers"
    /\ ~uiSearching
    /\ uiPapers # << >>

(***************************************************************************)
(* Claims about the last delay and the empty loop, checked under SpecRetry. *)
(***************************************************************************)
\* the invocation ends in this step with the terminal error
TerminalStep(c) ==
    /\ callOutcome[c] = NoOutcome
    /\ callOutcome'[c] = Threw(TerminalError)

\* C26: when every one of the maxRetries attempts has failed with a transient
\* error, the terminal error is raised after maxRetries delays, the last one
\* of initialDelay x 2^(maxRetries-1) taken after the last attempt, and no
\* attempt follows that delay.
C26_DelayAfterLastAttempt ==
    /\ [][\A c \in Calls :
             (TerminalStep(c) /\ maxRetries[c] >= 1)
                 => /\ invoked[c] = maxRetries[c]
                    /\ Len(opLog[c]) = maxRetries[c]
                    /\ AllTransientFailures(opLog[c])
                    /\ Len(delayLog[c]) = maxRetries[c]
                    /\ delayLog[c][maxRetries[c]] =
                           [attempt |-> maxRetries[c] - 1,
                            delay |-> initialDelay[c] * (2 ^ (maxRetries[c] - 1))]]_vars
    /\ [][\A c \in Calls :
             (Len(delayLog[c]) = maxRetries[c] /\ maxRetries[c] >= 1)
                 => invoked'[c] = invoked[c]]_vars

\* three attempts have failed and the third delay, of 4000, is running: the
\* terminal error is still to come
C26_Witness ==
    /\ maxRetries["c1"] = 3
    /\ initialDelay["c1"] = 1000
    /\ callPc["c1"] = "sleeping"
    /\ invoked["c1"] = 3
    /\ DelaysOf("c1") = <<1000, 2000, 4000>>
    /\ callOutcome["c1"] = NoOutcome

\* C27: with maxRetries <= 0 the wrapped operation is never invoked, no
\* delay is taken, and the invocation ends, in its first step, with the
\* terminal 'temporarily unavailable' error.
C27_NoAttemptWithoutRetries ==
    /\ [](\A c \in Calls :
            (callPc[c] # "idle" /\ maxRetries[c] <= 0)
                => /\ invoked[c] = 0
                   /\ opLog[c] = << >>
                   /\ delayLog[c] = << >>
                   /\ callPc[c] \in {"loop", "done"}
                   /\ callPc[c] = "done" => callOutcome[c] = Threw(TerminalError))
    /\ [][\A c \in Calls :
             (callPc[c] = "loop" /\ maxRetries[c] <= 0 /\ callPc'[c] # callPc[c])
                 => callPc'[c] = "done"]_vars

\* an invocation with maxRetries = 0 has ended with the terminal error
C27_Witness ==
    /\ maxRetries["c1"] = 0
    /\ callPc["c1"] = "done"
    /\ invoked["c1"] = 0
    /\ callOutcome["c1"] = Threw(TerminalError)

(***************************************************************************)
(* SpecUILive: SpecUI where every request that is awaited settles.         *)
(***************************************************************************)
\* a request of the compare fan-out settles
FanoutSettles ==
    /\ \E field \in DOMAIN uiFanout.reqs : RequestFulfils(field) \/ RequestRejects(field)
    /\ UNCHANGED outsideUi

\* the search request of the functions App settles
SearchSettles ==
    /\ \E i \in 1..Len(uiSearches) :
           \/ \E results \in SearchResultLists, topics \in SuggestionLists :
                  searchForPapersFulfils(i, results, topics)
           \/ searchForPapersRejects(i)
    /\ UNCHANGED outsideUi

SpecUILive == SpecUI /\ WF_vars(FanoutSettles) /\ WF_vars(SearchSettles)

\* an action that holds the loading flag is running: the search of the
\* functions App, or a compare fan-out whose join has not settled
LoadingActionRunning ==
    \/ uiApp = AppFunctions /\ \E i \in 1..Len(uiSearches) : uiSearches[i].stage = "papers"
    \/ uiFanout.status = "pending"

\* C28: the loading flag (isProcessing, isLoading) is set only while a search
\* or compare action that set it is running, and, every request settling in
\* the end, a flag that is set is reset, whether the requests fulfil or reject.
C28_LoadingFlagReset ==
    /\ [](uiLoading => LoadingActionRunning)
    /\ (uiLoading ~> ~uiLoading)

\* a compare action of src/App.tsx has failed and isProcessing is reset
C28_Witness ==
    /\ uiApp = AppRoot
    /\ uiCompares = 1
    /\ uiFanout.status = "rejected"
    /\ ~uiLoading
    /\ ~uiError.isNull

(***************************************************************************)
(* The selection of src/App.tsx against the papers on display.             *)
(***************************************************************************)
\* the Compare button of src/App.tsx is enabled
CompareEnabled == Cardinality(uiSelected) >= 2 /\ ~uiLoading

\* C29: in src/App.tsx every selected paper id is the id of a paper on
\* display, and whenever the Compare button is enabled papersForComparison
\* has at least two papers.
C29_SelectionWithinPapers ==
    uiApp = AppRoot =>
        /\ \A paperId \in uiSelected : Has(uiPapers, paperId)
        /\ CompareEnabled => Len(papersForComparison) >= 2

\* two papers are selected, a new search has emptied the list, and a click
\* on the enabled Compare button has raised the alert
C29_CompareOnStaleSelection ==
    /\ uiApp = AppRoot
    /\ Cardinality(uiSelected) >= 2
    /\ uiPapers = << >>
    /\ uiAlerted

(***************************************************************************)
(* SpecReshapeFrame: the reshape applied to payloads with every field the  *)
(* response schema requires, the aspects in any order.                     *)
(***************************************************************************)
NameResearchGaps ==
    <<"r", "e", "s", "e", "a", "r", "c", "h", "G", "a", "p", "s">>
NameHypothesis ==
    <<"h", "y", "p", "o", "t", "h", "e", "s", "i", "s">>

\* the aspect names of a payload: none, one, or two in either order or repeated
FrameAspectNames ==
    {<< >>} \cup {<<AspectNames[i]>> : i \in 1..Len(AspectNames)}
            \cup {<<AspectNames[i], AspectNames[j]>> : i, j \in 1..Len(AspectNames)}

\* the research gaps of a payload
FrameGaps == {Arr(<< >>), Arr(<<Str(<<"g">>), Str(<<"h">>)>>)}

FramePayload(names, lists, gaps) ==
    Obj(<<[name |-> NameComparison,
           value |-> Arr([i \in 1..Len(names) |-> WireAspect(names[i], lists[i])])],
          [name |-> NameOverallSynthesis, value |-> Str(<<"o">>)],
          [name |-> NameResearchGaps, value |-> gaps],
          [name |-> NameHypothesis, value |-> Str(<<"y">>)]>>)

InitReshapeFrame ==
    /\ RetryIdle
    /\ NormIdle
    /\ CompareIdle
    /\ UiIdle
    /\ svcPc = "ready"
    /\ svcOp = "reshape"
    /\ svcArg = << >>
    /\ \E names \in FrameAspectNames, gaps \in FrameGaps :
           \E lists \in [1..Len(names) -> WireLists] :
               svcReply = FramePayload(names, lists, gaps)
    /\ svcOutcome = NoOutcome
    /\ svcRequests = 0
    /\ svcConsole = 0
    /\ svcNow = 0
    /\ svcKey = "set"
    /\ aiKey = "key"

SpecReshapeFrame == InitReshapeFrame /\ [][NextReshape]_vars

\* the reshape ran on a payload that has every required field
FrameReshapeDone ==
    /\ svcOp = "reshape"
    /\ svcPc = "done"
    /\ Field(svcReply, NameComparison).t = "arr"
    /\ Field(svcReply, NameResearchGaps).t = "arr"
    /\ Field(svcReply, NameHypothesis).t = "str"

\* the names of the fields of an object
FieldNames(object) == {object.fields[k].name : k \in 1..Len(object.fields)}

\* C30: the reshape returns the aspects of the raw payload in the same number
\* and order with the same names, each with nothing but its name and its
\* mapping; overallSynthesis, researchGaps and hypothesis are returned as they
\* came, with no field added; and a paper named more than once in a list has
\* a single key, holding the point of its last entry.
C30_ReshapeFrame ==
    FrameReshapeDone =>
        /\ svcOutcome.kind = "returned"
        /\ FieldNames(svcOutcome.value) = FieldNames(svcReply)
        /\ Len(svcOutcome.value.fields) = Len(svcReply.fields)
        /\ \A name \in {NameOverallSynthesis, NameResearchGaps, NameHypothesis} :
               Field(svcOutcome.value, name) = Field(svcReply, name)
        /\ Len(AspectsOut) = Len(AspectsIn)
        /\ \A i \in 1..Len(AspectsIn) :
               /\ Field(AspectsOut[i], NameAspect) = Field(AspectsIn[i], NameAspect)
               /\ FieldNames(AspectsOut[i]) = {NameAspect, NamePapers}
               /\ Len(AspectsOut[i].fields) = 2
               /\ Keys(MappingOut(i)) = EntryIds(ListIn(i))
               /\ Len(MappingOut(i).fields) = Cardinality(EntryIds(ListIn(i)))
               /\ \A paperId \in EntryIds(ListIn(i)) :
                      SamePoint(Field(MappingOut(i), paperId),
                                LastEntryOf(ListIn(i), paperId))

\* a payload with research gaps and two aspects, the last of the prompt first,
\* was reshaped; its first list names one paper twice with different values
C30_Witness ==
    /\ FrameReshapeDone
    /\ svcOutcome.kind = "returned"
    /\ Len(AspectsIn) = 2
    /\ Field(AspectsIn[1], NameAspect) = Str(AspectNames[2])
    /\ Field(AspectsOut[2], NameAspect) = Str(AspectNames[1])
    /\ Len(Field(svcReply, NameResearchGaps).items) = 2
    /\ Len(ListIn(1)) = 2
    /\ Cardinality(EntryIds(ListIn(1))) = 1
    /\ ListIn(1)[1] # ListIn(1)[2]
    /\ Len(MappingOut(1).fields) = 1

====
